---- MODULE Spec2Model ----
(***************************************************************************)
(* Model of the workout log application: the validator and the service    *)
(* (services/workout_service.py), the record model and the 1RM estimate   *)
(* (models.py), the PostgreSQL manager (database/postgres_manager.py) and  *)
(* the text importer (parsers/text_parser.py).                             *)
(*                                                                         *)
(* Strings are sequences of one-character strings.  The Korean exercise    *)
(* names of the source are written syllable by syllable in romanised form  *)
(* (one sequence element per Hangul syllable), since the module is ASCII.  *)
(***************************************************************************)
EXTENDS Integers, Sequences, FiniteSets, TLC

VARIABLES
    vIn,              \* validator: the raw mapping last given to validate_workout_data
    vOut,             \* validator: what that call returned or raised
    conn,             \* manager: self._conn ("none", "open", or "closed": closed != 0)
    store,            \* backend: committed rows of table records, in insertion order
    pending,          \* backend: rows written by the connection's open transaction
    nextBatch,        \* number of the next non-empty insert_records call
    failed,           \* numbers of the insert_records calls that returned 0 on an error
    lastOp,           \* the last operation on the manager or the service and its result
    lines,            \* importer: the lines of the file read so far, newest last
    current_date,     \* importer: local of parse
    current_exercise, \* importer: local of parse
    set_count,        \* importer: local of parse
    records_list,     \* importer: local of parse
    scan,             \* importer: "scanning", or how parse ended: "returned", "failed"
    returned,         \* importer: the list parse returned
    phase,            \* api: "idle", or the request is "active" or "done" (context ending)
    g,                \* api: g.db_manager: 0 when absent, else the number of the instance
    created,          \* api: managers constructed during the current request
    got               \* api: the instances get_db_manager returned during the request

vars == <<vIn, vOut, conn, store, pending, nextBatch, failed, lastOp,
          lines, current_date, current_exercise, set_count, records_list,
          scan, returned, phase, g, created, got>>

valVars == <<vIn, vOut>>
dbVars == <<conn, store, pending, nextBatch, failed, lastOp>>
parseVars == <<lines, current_date, current_exercise, set_count, records_list,
               scan, returned>>
apiVars == <<phase, g, created, got>>

-----------------------------------------------------------------------------
(* Bounds of the model *)

MaxInt == 2          \* raw integers are drawn from -1 .. MaxInt
MaxLines == 4        \* lines of an imported file scanned in the importer's specification
MaxFileLen == 4      \* lines of a file imported into the store
MaxStore == 2        \* rows (committed or pending) the backend holds
MaxBatches == 2      \* non-empty insert_records calls

-----------------------------------------------------------------------------
(* Characters and strings.  A string is a sequence of characters.  A character is *)
(* a one-character string; a character the module cannot write in ASCII is named  *)
(* by its code point ("U+3000"), the Hangul syllables by their romanisation.       *)

\* the decimal digits (category Nd of Unicode 14, the tables of CPython 3.11), which
\* \d of a str pattern matches and int() converts: row b holds the digits 0 .. 9 of
\* one script
DigitChars ==
    <<<<"0", "1", "2", "3", "4", "5", "6", "7", "8", "9">>,
      <<"U+0660", "U+0661", "U+0662", "U+0663", "U+0664", "U+0665", "U+0666", "U+0667", "U+0668", "U+0669">>,
      <<"U+06F0", "U+06F1", "U+06F2", "U+06F3", "U+06F4", "U+06F5", "U+06F6", "U+06F7", "U+06F8", "U+06F9">>,
      <<"U+07C0", "U+07C1", "U+07C2", "U+07C3", "U+07C4", "U+07C5", "U+07C6", "U+07C7", "U+07C8", "U+07C9">>,
      <<"U+0966", "U+0967", "U+0968", "U+0969", "U+096A", "U+096B", "U+096C", "U+096D", "U+096E", "U+096F">>,
      <<"U+09E6", "U+09E7", "U+09E8", "U+09E9", "U+09EA", "U+09EB", "U+09EC", "U+09ED", "U+09EE", "U+09EF">>,
      <<"U+0A66", "U+0A67", "U+0A68", "U+0A69", "U+0A6A", "U+0A6B", "U+0A6C", "U+0A6D", "U+0A6E", "U+0A6F">>,
      <<"U+0AE6", "U+0AE7", "U+0AE8", "U+0AE9", "U+0AEA", "U+0AEB", "U+0AEC", "U+0AED", "U+0AEE", "U+0AEF">>,
      <<"U+0B66", "U+0B67", "U+0B68", "U+0B69", "U+0B6A", "U+0B6B", "U+0B6C", "U+0B6D", "U+0B6E", "U+0B6F">>,
      <<"U+0BE6", "U+0BE7", "U+0BE8", "U+0BE9", "U+0BEA", "U+0BEB", "U+0BEC", "U+0BED", "U+0BEE", "U+0BEF">>,
      <<"U+0C66", "U+0C67", "U+0C68", "U+0C69", "U+0C6A", "U+0C6B", "U+0C6C", "U+0C6D", "U+0C6E", "U+0C6F">>,
      <<"U+0CE6", "U+0CE7", "U+0CE8", "U+0CE9", "U+0CEA", "U+0CEB", "U+0CEC", "U+0CED", "U+0CEE", "U+0CEF">>,
      <<"U+0D66", "U+0D67", "U+0D68", "U+0D69", "U+0D6A", "U+0D6B", "U+0D6C", "U+0D6D", "U+0D6E", "U+0D6F">>,
      <<"U+0DE6", "U+0DE7", "U+0DE8", "U+0DE9", "U+0DEA", "U+0DEB", "U+0DEC", "U+0DED", "U+0DEE", "U+0DEF">>,
      <<"U+0E50", "U+0E51", "U+0E52", "U+0E53", "U+0E54", "U+0E55", "U+0E56", "U+0E57", "U+0E58", "U+0E59">>,
      <<"U+0ED0", "U+0ED1", "U+0ED2", "U+0ED3", "U+0ED4", "U+0ED5", "U+0ED6", "U+0ED7", "U+0ED8", "U+0ED9">>,
      <<"U+0F20", "U+0F21", "U+0F22", "U+0F23", "U+0F24", "U+0F25", "U+0F26", "U+0F27", "U+0F28", "U+0F29">>,
      <<"U+1040", "U+1041", "U+1042", "U+1043", "U+1044", "U+1045", "U+1046", "U+1047", "U+1048", "U+1049">>,
      <<"U+1090", "U+1091", "U+1092", "U+1093", "U+1094", "U+1095", "U+1096", "U+1097", "U+1098", "U+1099">>,
      <<"U+17E0", "U+17E1", "U+17E2", "U+17E3", "U+17E4", "U+17E5", "U+17E6", "U+17E7", "U+17E8", "U+17E9">>,
      <<"U+1810", "U+1811", "U+1812", "U+1813", "U+1814", "U+1815", "U+1816", "U+1817", "U+1818", "U+1819">>,
      <<"U+1946", "U+1947", "U+1948", "U+1949", "U+194A", "U+194B", "U+194C", "U+194D", "U+194E", "U+194F">>,
      <<"U+19D0", "U+19D1", "U+19D2", "U+19D3", "U+19D4", "U+19D5", "U+19D6", "U+19D7", "U+19D8", "U+19D9">>,
      <<"U+1A80", "U+1A81", "U+1A82", "U+1A83", "U+1A84", "U+1A85", "U+1A86", "U+1A87", "U+1A88", "U+1A89">>,
      <<"U+1A90", "U+1A91", "U+1A92", "U+1A93", "U+1A94", "U+1A95", "U+1A96", "U+1A97", "U+1A98", "U+1A99">>,
      <<"U+1B50", "U+1B51", "U+1B52", "U+1B53", "U+1B54", "U+1B55", "U+1B56", "U+1B57", "U+1B58", "U+1B59">>,
      <<"U+1BB0", "U+1BB1", "U+1BB2", "U+1BB3", "U+1BB4", "U+1BB5", "U+1BB6", "U+1BB7", "U+1BB8", "U+1BB9">>,
      <<"U+1C40", "U+1C41", "U+1C42", "U+1C43", "U+1C44", "U+1C45", "U+1C46", "U+1C47", "U+1C48", "U+1C49">>,
      <<"U+1C50", "U+1C51", "U+1C52", "U+1C53", "U+1C54", "U+1C55", "U+1C56", "U+1C57", "U+1C58", "U+1C59">>,
      <<"U+A620", "U+A621", "U+A622", "U+A623", "U+A624", "U+A625", "U+A626", "U+A627", "U+A628", "U+A629">>,
      <<"U+A8D0", "U+A8D1", "U+A8D2", "U+A8D3", "U+A8D4", "U+A8D5", "U+A8D6", "U+A8D7", "U+A8D8", "U+A8D9">>,
      <<"U+A900", "U+A901", "U+A902", "U+A903", "U+A904", "U+A905", "U+A906", "U+A907", "U+A908", "U+A909">>,
      <<"U+A9D0", "U+A9D1", "U+A9D2", "U+A9D3", "U+A9D4", "U+A9D5", "U+A9D6", "U+A9D7", "U+A9D8", "U+A9D9">>,
      <<"U+A9F0", "U+A9F1", "U+A9F2", "U+A9F3", "U+A9F4", "U+A9F5", "U+A9F6", "U+A9F7", "U+A9F8", "U+A9F9">>,
      <<"U+AA50", "U+AA51", "U+AA52", "U+AA53", "U+AA54", "U+AA55", "U+AA56", "U+AA57", "U+AA58", "U+AA59">>,
      <<"U+ABF0", "U+ABF1", "U+ABF2", "U+ABF3", "U+ABF4", "U+ABF5", "U+ABF6", "U+ABF7", "U+ABF8", "U+ABF9">>,
      <<"U+FF10", "U+FF11", "U+FF12", "U+FF13", "U+FF14", "U+FF15", "U+FF16", "U+FF17", "U+FF18", "U+FF19">>,
      <<"U+104A0", "U+104A1", "U+104A2", "U+104A3", "U+104A4", "U+104A5", "U+104A6", "U+104A7", "U+104A8", "U+104A9">>,
      <<"U+10D30", "U+10D31", "U+10D32", "U+10D33", "U+10D34", "U+10D35", "U+10D36", "U+10D37", "U+10D38", "U+10D39">>,
      <<"U+11066", "U+11067", "U+11068", "U+11069", "U+1106A", "U+1106B", "U+1106C", "U+1106D", "U+1106E", "U+1106F">>,
      <<"U+110F0", "U+110F1", "U+110F2", "U+110F3", "U+110F4", "U+110F5", "U+110F6", "U+110F7", "U+110F8", "U+110F9">>,
      <<"U+11136", "U+11137", "U+11138", "U+11139", "U+1113A", "U+1113B", "U+1113C", "U+1113D", "U+1113E", "U+1113F">>,
      <<"U+111D0", "U+111D1", "U+111D2", "U+111D3", "U+111D4", "U+111D5", "U+111D6", "U+111D7", "U+111D8", "U+111D9">>,
      <<"U+112F0", "U+112F1", "U+112F2", "U+112F3", "U+112F4", "U+112F5", "U+112F6", "U+112F7", "U+112F8", "U+112F9">>,
      <<"U+11450", "U+11451", "U+11452", "U+11453", "U+11454", "U+11455", "U+11456", "U+11457", "U+11458", "U+11459">>,
      <<"U+114D0", "U+114D1", "U+114D2", "U+114D3", "U+114D4", "U+114D5", "U+114D6", "U+114D7", "U+114D8", "U+114D9">>,
      <<"U+11650", "U+11651", "U+11652", "U+11653", "U+11654", "U+11655", "U+11656", "U+11657", "U+11658", "U+11659">>,
      <<"U+116C0", "U+116C1", "U+116C2", "U+116C3", "U+116C4", "U+116C5", "U+116C6", "U+116C7", "U+116C8", "U+116C9">>,
      <<"U+11730", "U+11731", "U+11732", "U+11733", "U+11734", "U+11735", "U+11736", "U+11737", "U+11738", "U+11739">>,
      <<"U+118E0", "U+118E1", "U+118E2", "U+118E3", "U+118E4", "U+118E5", "U+118E6", "U+118E7", "U+118E8", "U+118E9">>,
      <<"U+11950", "U+11951", "U+11952", "U+11953", "U+11954", "U+11955", "U+11956", "U+11957", "U+11958", "U+11959">>,
      <<"U+11C50", "U+11C51", "U+11C52", "U+11C53", "U+11C54", "U+11C55", "U+11C56", "U+11C57", "U+11C58", "U+11C59">>,
      <<"U+11D50", "U+11D51", "U+11D52", "U+11D53", "U+11D54", "U+11D55", "U+11D56", "U+11D57", "U+11D58", "U+11D59">>,
      <<"U+11DA0", "U+11DA1", "U+11DA2", "U+11DA3", "U+11DA4", "U+11DA5", "U+11DA6", "U+11DA7", "U+11DA8", "U+11DA9">>,
      <<"U+16A60", "U+16A61", "U+16A62", "U+16A63", "U+16A64", "U+16A65", "U+16A66", "U+16A67", "U+16A68", "U+16A69">>,
      <<"U+16AC0", "U+16AC1", "U+16AC2", "U+16AC3", "U+16AC4", "U+16AC5", "U+16AC6", "U+16AC7", "U+16AC8", "U+16AC9">>,
      <<"U+16B50", "U+16B51", "U+16B52", "U+16B53", "U+16B54", "U+16B55", "U+16B56", "U+16B57", "U+16B58", "U+16B59">>,
      <<"U+1D7CE", "U+1D7CF", "U+1D7D0", "U+1D7D1", "U+1D7D2", "U+1D7D3", "U+1D7D4", "U+1D7D5", "U+1D7D6", "U+1D7D7">>,
      <<"U+1D7D8", "U+1D7D9", "U+1D7DA", "U+1D7DB", "U+1D7DC", "U+1D7DD", "U+1D7DE", "U+1D7DF", "U+1D7E0", "U+1D7E1">>,
      <<"U+1D7E2", "U+1D7E3", "U+1D7E4", "U+1D7E5", "U+1D7E6", "U+1D7E7", "U+1D7E8", "U+1D7E9", "U+1D7EA", "U+1D7EB">>,
      <<"U+1D7EC", "U+1D7ED", "U+1D7EE", "U+1D7EF", "U+1D7F0", "U+1D7F1", "U+1D7F2", "U+1D7F3", "U+1D7F4", "U+1D7F5">>,
      <<"U+1D7F6", "U+1D7F7", "U+1D7F8", "U+1D7F9", "U+1D7FA", "U+1D7FB", "U+1D7FC", "U+1D7FD", "U+1D7FE", "U+1D7FF">>,
      <<"U+1E140", "U+1E141", "U+1E142", "U+1E143", "U+1E144", "U+1E145", "U+1E146", "U+1E147", "U+1E148", "U+1E149">>,
      <<"U+1E2F0", "U+1E2F1", "U+1E2F2", "U+1E2F3", "U+1E2F4", "U+1E2F5", "U+1E2F6", "U+1E2F7", "U+1E2F8", "U+1E2F9">>,
      <<"U+1E950", "U+1E951", "U+1E952", "U+1E953", "U+1E954", "U+1E955", "U+1E956", "U+1E957", "U+1E958", "U+1E959">>,
      <<"U+1FBF0", "U+1FBF1", "U+1FBF2", "U+1FBF3", "U+1FBF4", "U+1FBF5", "U+1FBF6", "U+1FBF7", "U+1FBF8", "U+1FBF9">>>>

DigitSet == {DigitChars[b][i] : b \in 1..Len(DigitChars), i \in 1..10}

IsDigit(c) == c \in DigitSet

\* the value of each decimal digit
DigitValue ==
    [c \in DigitSet |->
        (CHOOSE i \in 1..10 : \E b \in 1..Len(DigitChars) : DigitChars[b][i] = c) - 1]

DigitVal(c) == DigitValue[c]

\* the characters of which str.isspace() holds: str.strip() removes them and \s of a
\* str pattern matches them
Whitespace ==
    {"\t", "\n", "U+000B", "\f", "\r", "U+001C", "U+001D", "U+001E", "U+001F", " ",
     "U+0085", "U+00A0", "U+1680", "U+2000", "U+2001", "U+2002", "U+2003", "U+2004",
     "U+2005", "U+2006", "U+2007", "U+2008", "U+2009", "U+200A", "U+2028", "U+2029",
     "U+202F", "U+205F", "U+3000"}

IsSpace(c) == c \in Whitespace

\* the place of the first character of s of which Q holds, Len(s) + 1 if there is none
First(s, Q(_)) ==
    IF \E i \in 1..Len(s) : Q(s[i])
    THEN CHOOSE i \in 1..Len(s) : Q(s[i]) /\ \A j \in 1..(i - 1) : ~Q(s[j])
    ELSE Len(s) + 1

\* the place of the last character of s of which Q holds, 0 if there is none
Last(s, Q(_)) ==
    IF \E i \in 1..Len(s) : Q(s[i])
    THEN CHOOSE i \in 1..Len(s) : Q(s[i]) /\ \A j \in (i + 1)..Len(s) : ~Q(s[j])
    ELSE 0

\* s without the characters of W it starts with
TrimLeft(s, W) == SubSeq(s, First(s, LAMBDA c : c \notin W), Len(s))

\* s without the characters of W it ends with
TrimRight(s, W) == SubSeq(s, 1, Last(s, LAMBDA c : c \notin W))

LStrip(s) == TrimLeft(s, Whitespace)

RStrip(s) == TrimRight(s, Whitespace)

\* str.strip()
Strip(s) == RStrip(LStrip(s))

\* length of the run of digits that s starts with
DigitRun(s) == First(s, LAMBDA c : ~IsDigit(c)) - 1

\* value of a sequence of digits
RECURSIVE DigitsVal(_)
DigitsVal(s) ==
    IF s = <<>> THEN 0 ELSE 10 * DigitsVal(SubSeq(s, 1, Len(s) - 1)) + DigitVal(s[Len(s)])

Drop(s, n) == SubSeq(s, n + 1, Len(s))

Take(s, n) == SubSeq(s, 1, n)

-----------------------------------------------------------------------------
(* The exercise vocabulary *)

BenchPress == <<"ben", "chi", "peu", "re", "seu">>
Deadlift == <<"de", "deu", "ri", "peu", "teu">>
Squat == <<"seu", "kwo", "teu">>

ALLOWED_EXERCISE_TYPES == <<BenchPress, Deadlift, Squat>>

Allowed == {ALLOWED_EXERCISE_TYPES[i] : i \in 1..Len(ALLOWED_EXERCISE_TYPES)}

-----------------------------------------------------------------------------
(* Raw (untyped) values of a request body.  t is the Python type, i the    *)
(* number of an int or bool, the tenths of a float, the sign of an int of  *)
(* more than 310 digits; s the text of a str.                              *)

Raw(t, i, s) == [t |-> t, i |-> i, s |-> s]

Absent == Raw("absent", 0, <<>>)       \* the key is not in the mapping
NoneV == Raw("none", 0, <<>>)
IntV(n) == Raw("int", n, <<>>)
HugeIntV(sign) == Raw("hugeint", sign, <<>>)   \* an int of more than 310 digits
BoolV(b) == Raw("bool", IF b THEN 1 ELSE 0, <<>>)
FloatV(tenths) == Raw("float", tenths, <<>>)
InfV == Raw("inf", 0, <<>>)            \* float('inf'), JSON Infinity
NanV == Raw("nan", 0, <<>>)            \* float('nan'), JSON NaN
ListV == Raw("list", 0, <<>>)          \* a JSON array or object
StrV(s) == Raw("str", 0, s)

required_fields == <<"exercise_type", "weight", "reps", "sets">>

Keys == {"exercise_type", "weight", "reps", "sets", "estimated_1rm", "record_date"}

\* `field in data`
HasKey(data, k) == data[k].t # "absent"

\* data.get(k): None for a key that is not there
Get(data, k) == IF HasKey(data, k) THEN data[k] ELSE NoneV

\* quotient of a / b rounded towards zero, b > 0
TruncDiv(a, b) == IF a >= 0 THEN a \div b ELSE -((-a) \div b)

\* A Python int.  An int of at most FloatMaxDigits decimal digits is PyInt(n), n the
\* int itself.  An int of more digits is beyond every binary64, and so is its
\* thirtieth (the largest binary64 has 309 digits, thirty times it 310); it is kept
\* by its sign alone, Huge(1) or Huge(-1): the program compares such an int with 0,
\* divides it by 30 or converts it to float, which raises OverflowError, and hands
\* it on
PyInt(n) == [huge |-> FALSE, n |-> n]

Huge(sign) == [huge |-> TRUE, n |-> sign]

FloatMaxDigits == 310

\* sys.int_info.default_max_str_digits: int() refuses a literal of more digits
MaxStrDigits == 4300

\* -1, 0 or 1 as the int x is negative, zero or positive
Sign(x) == IF x.huge THEN x.n ELSE IF x.n > 0 THEN 1 ELSE IF x.n < 0 THEN -1 ELSE 0

Conv(err, val) == [err |-> err, val |-> val]

\* the whitespace int() ignores around a literal: that of str.strip() but for the
\* separators U+001C .. U+001F
IntWhitespace == Whitespace \ {"U+001C", "U+001D", "U+001E", "U+001F"}

\* the digits of a literal, its underscores left out
Digits(d) == SelectSeq(d, IsDigit)

\* the digits s without the zeros they start with
StripZeros(s) == SubSeq(s, First(s, LAMBDA c : DigitVal(c) # 0), Len(s))

\* decimal digits with single underscores between them
IsDecimalLiteral(d) ==
    /\ d # <<>>
    /\ IsDigit(d[1])
    /\ IsDigit(d[Len(d)])
    /\ \A i \in 1..Len(d) :
          IsDigit(d[i]) \/ (d[i] = "_" /\ i < Len(d) /\ IsDigit(d[i + 1]))

\* the int of the digits ds of a literal
IntOfDigitSeq(negative, ds) ==
    IF Len(ds) > MaxStrDigits THEN Conv("ValueError", PyInt(0))
    ELSE IF Len(StripZeros(ds)) > FloatMaxDigits
    THEN Conv("none", Huge(IF negative THEN -1 ELSE 1))
    ELSE Conv("none", PyInt(IF negative THEN -DigitsVal(StripZeros(ds))
                            ELSE DigitsVal(StripZeros(ds))))

\* the part d of an integer literal that follows its sign
IntOfDigits(negative, d) ==
    IF IsDecimalLiteral(d) THEN IntOfDigitSeq(negative, Digits(d))
    ELSE Conv("ValueError", PyInt(0))

\* an integer literal s without surrounding whitespace: optional sign, decimal digits
IntOfStripped(s) ==
    IF s # <<>> /\ Head(s) \in {"+", "-"}
    THEN IntOfDigits(Head(s) = "-", Tail(s))
    ELSE IntOfDigits(FALSE, s)

\* int(text): surrounding whitespace is ignored
IntOfStr(text) == IntOfStripped(TrimRight(TrimLeft(text, IntWhitespace), IntWhitespace))

\* int(value) of Python: the integer, or the exception it raises
ToInt(v) ==
    CASE v.t \in {"int", "bool"} -> Conv("none", PyInt(v.i))
      [] v.t = "hugeint" -> Conv("none", Huge(v.i))
      [] v.t = "float" -> Conv("none", PyInt(TruncDiv(v.i, 10)))
      [] v.t = "inf" -> Conv("OverflowError", PyInt(0))
      [] v.t = "nan" -> Conv("ValueError", PyInt(0))
      [] v.t = "str" -> IntOfStr(v.s)
      [] OTHER -> Conv("TypeError", PyInt(0))

-----------------------------------------------------------------------------
(* models.py *)

\* 2^k, k >= 0
RECURSIVE Pow2(_)
Pow2(k) == IF k <= 0 THEN 1 ELSE 2 * Pow2(k - 1)

\* the number of binary digits of n >= 0
RECURSIVE BitLength(_)
BitLength(n) == IF n <= 0 THEN 0 ELSE 1 + BitLength(n \div 2)

\* 2^n modulo M
RECURSIVE PowMod(_, _)
PowMod(n, M) == IF n = 0 THEN 1 % M ELSE (2 * PowMod(n - 1, M)) % M

\* the largest power of two that is at most q, q >= 1
RECURSIVE Pow2Floor(_)
Pow2Floor(q) == IF q < 2 THEN 1 ELSE 2 * Pow2Floor(q \div 2)

Abs(x) == IF x < 0 THEN -x ELSE x

\* a / b rounded to the nearest integer, ties to the even one (a >= 0, b > 0)
RoundHalfEven(a, b) ==
    IF 2 * (a % b) < b \/ (2 * (a % b) = b /\ (a \div b) % 2 = 0)
    THEN a \div b
    ELSE (a \div b) + 1

\* A binary64 that is not negative: Float(m, e) is m * 2^e, Infinity what a product
\* beyond the largest binary64 gives
Float(m, e) == [inf |-> FALSE, m |-> m, e |-> e]

Infinity == [inf |-> TRUE, m |-> 0, e |-> 0]

\* the 53-bit significand of a / b at the exponent e, and the float of it
Significand(a, b, e) ==
    IF e >= 0 THEN RoundHalfEven(a, b * Pow2(e)) ELSE RoundHalfEven(a * Pow2(-e), b)

FloatAt(m, e) == IF BitLength(m) + e > 1024 THEN Infinity ELSE Float(m, e)

\* a / b >= 2^L
AtLeastPow2(a, b, L) == IF L >= 0 THEN a >= b * Pow2(L) ELSE a * Pow2(-L) >= b

\* the exponent of the lowest bit of the significand of a / b: floor(log2(a / b)) - 52
Exponent(a, b, L) == IF AtLeastPow2(a, b, L) THEN L - 52 ELSE L - 53

\* the binary64 nearest to a / b, ties to even (a >= 0, b > 0, a / b = 0 or >= 1 / 30)
NearestFloat(a, b) ==
    IF a = 0 THEN Float(0, 0)
    ELSE FloatAt(Significand(a, b, Exponent(a, b, BitLength(a) - BitLength(b))),
                 Exponent(a, b, BitLength(a) - BitLength(b)))

\* 1 + x for a float x
FloatAddOne(x) ==
    IF x.e >= 0 THEN NearestFloat(1 + x.m * Pow2(x.e), 1)
    ELSE NearestFloat(Pow2(-x.e) + x.m, Pow2(-x.e))

\* x * y for finite floats x and y
FloatMul(x, y) ==
    IF x.e + y.e >= 0 THEN NearestFloat(x.m * y.m * Pow2(x.e + y.e), 1)
    ELSE NearestFloat(x.m * y.m, Pow2(-(x.e + y.e)))

\* round(x) for a finite float x
RoundFloat(x) ==
    IF x.e >= 0 THEN x.m * Pow2(x.e) ELSE RoundHalfEven(x.m, Pow2(-x.e))

\* an Optional[int]
Some(n) == [some |-> TRUE, v |-> n]
None == [some |-> FALSE, v |-> 0]

\* round(w * s) for the floats w of weight and s of 1 + reps / 30: float(weight)
\* may not exist, and round() refuses an infinite product
RoundProduct(w, s) ==
    IF w.inf THEN Conv("OverflowError", None)
    ELSE IF FloatMul(w, s).inf THEN Conv("OverflowError", None)
    ELSE Conv("none", Some(RoundFloat(FloatMul(w, s))))

\* round(weight * (1 + reps / 30)) in binary64 arithmetic, operation by operation
\* (weight > 0, reps >= 0): reps / 30 may be too large for a float
FloatEpley(weight, reps) ==
    IF NearestFloat(reps, 30).inf THEN Conv("OverflowError", None)
    ELSE RoundProduct(NearestFloat(weight, 1), FloatAddOne(NearestFloat(reps, 30)))

\* j with 2^-j <= f / 30 < 2^-(j - 1), for 0 < f < 30
RECURSIVE FractionExponent(_, _)
FractionExponent(f, j) == IF f * Pow2(j) >= 30 THEN j ELSE FractionExponent(f, j + 1)

\* the rounding of 1 + fx, fx the float of I + f / 30 with n bits after the binary
\* point of which the sum drops k; rem is 2^n * f modulo 30.  Gives the error of
\* the sum in the unit 1 / (30 * 2^n)
SumRounding(f, n, k, rem) ==
    LET u1 == IF rem > 15 THEN 1 ELSE 0
        low == ((((PowMod(n, 30 * Pow2(k + 1)) * f) % (30 * Pow2(k + 1))) \div 30) + u1)
                   % Pow2(k + 1)
        u2 == IF k = 0 THEN 0
              ELSE IF 2 * (low % Pow2(k)) > Pow2(k) THEN 1
              ELSE IF 2 * (low % Pow2(k)) < Pow2(k) THEN 0
              ELSE low \div Pow2(k)
    IN  30 * (u2 * Pow2(k) - (low % Pow2(k))) + 30 * u1 - rem

\* 30 * 2^52 * (fl(1 + fl(reps / 30)) - (1 + reps / 30)): the error of the binary64
\* value of 1 + reps / 30, which decides the ties of round()
SumError(reps) ==
    LET I == reps \div 30
        f == reps % 30
        j == FractionExponent(f, 1)
    IN  IF f = 0 THEN 0
        ELSE IF I = 0
        THEN SumRounding(f, 52 + j, j, (PowMod(52 + j, 30) * f) % 30) \div Pow2(j)
        ELSE Pow2(BitLength(I) - 1)
                * SumRounding(f, 53 - BitLength(I), BitLength(I + 1) - BitLength(I),
                              (PowMod(53 - BitLength(I), 30) * f) % 30)

\* FloatEpley for a product below 2^45, in integers of that size: the nearest
\* integer; where the exact product is q + 1/2 the float product is q + 1/2 itself
\* (rounded to the even integer) or lies beside it, by SumError
RoundEpley(weight, reps) ==
    LET num == weight * (30 + reps)
        q == num \div 30
        rem == num % 30
        err == IF rem = 15 THEN weight * SumError(reps) ELSE 0
        \* half an ulp of q + 1/2, in the unit of err, doubled
        half2 == IF q = 0 THEN 15 ELSE 30 * Pow2Floor(q)
    IN  IF rem < 15 THEN q
        ELSE IF rem > 15 THEN q + 1
        ELSE IF 2 * Abs(err) <= half2 THEN (IF q % 2 = 0 THEN q ELSE q + 1)
        ELSE IF err > 0 THEN q + 1
        ELSE q

\* round(weight * (1 + reps / 30)) for ints weight > 0 and reps >= 0: the int, or
\* the OverflowError of an operand or a product beyond binary64
Epley(weight, reps) ==
    IF weight.huge \/ reps.huge THEN Conv("OverflowError", None)
    ELSE IF BitLength((weight.n * (30 + reps.n)) \div 30) <= 45
    THEN Conv("none", Some(RoundEpley(weight.n, reps.n)))
    ELSE FloatEpley(weight.n, reps.n)

\* estimate_1rm_epley (lines 6-13): what it returns, or the exception it raises
estimate_1rm_epley(weight, reps) ==
    IF ~weight.some \/ ~reps.some THEN Conv("none", None)
    ELSE IF Sign(weight.v) <= 0 \/ Sign(reps.v) < 0 THEN Conv("none", None)
    ELSE Epley(weight.v, reps.v)

\* the attributes of a WorkoutRecord
Record(record_date, exercise_type, weight, reps, sets, estimated_1rm) ==
    [record_date |-> record_date,
     exercise_type |-> exercise_type,
     weight |-> weight,
     reps |-> reps,
     sets |-> sets,
     estimated_1rm |-> estimated_1rm]

NoRecord == Record(<<0, 0, 0>>, <<>>, PyInt(0), PyInt(0), PyInt(0), None)

\* what a constructor call gives: the exception it raises, or the object
Built(exc, rec) == [exc |-> exc, rec |-> rec]

\* line 30, given what estimate_1rm_epley gave
Estimated(record_date, exercise_type, weight, reps, sets, est) ==
    IF est.err # "none" THEN Built(est.err, NoRecord)
    ELSE Built("none", Record(record_date, exercise_type, weight, reps, sets, est.val))

\* WorkoutRecord.__init__ (lines 17-30)
WorkoutRecord(record_date, exercise_type, weight, reps, sets, estimated_1rm) ==
    IF estimated_1rm.some
    THEN Built("none", Record(record_date, exercise_type, weight, reps, sets, estimated_1rm))
    ELSE Estimated(record_date, exercise_type, weight, reps, sets,
                   estimate_1rm_epley(Some(weight), Some(reps)))

\* WorkoutRecord.to_tuple
to_tuple(rec) ==
    <<rec.record_date, rec.exercise_type, rec.weight, rec.reps, rec.sets,
      rec.estimated_1rm>>

-----------------------------------------------------------------------------
(* services/workout_service.py: validate_workout_data *)

\* what a call gives: exc is the class of the exception that escapes ("none" when the
\* call returns), rule the check that raised, cause the class first raised there
Outcome(exc, rule, cause, val) == [exc |-> exc, rule |-> rule, cause |-> cause, val |-> val]

NoVal ==
    [exercise_type |-> <<>>, weight |-> PyInt(0), reps |-> PyInt(0), sets |-> PyInt(0),
     record_date |-> <<0, 0, 0>>]

\* lines 46-61: the try block with its two handlers, given whether one of the three
\* values is None and what int() makes of each.  A ValueError or TypeError becomes
\* a ValidationError; every other exception raised in the block, the
\* ValidationError of the range check included, becomes a DatabaseServiceError
TryBlock(exercise_type, anyNone, w, r, s, today) ==
    LET first == IF anyNone THEN "TypeError"
                 ELSE IF w.err # "none" THEN w.err
                 ELSE IF r.err # "none" THEN r.err
                 ELSE IF s.err # "none" THEN s.err
                 ELSE IF Sign(w.val) < 0 \/ Sign(r.val) < 0 \/ Sign(s.val) <= 0
                 THEN "ValidationError"
                 ELSE "none"
    IN  CASE first = "none" ->
               Outcome("none", "none", "none",
                       [exercise_type |-> exercise_type, weight |-> w.val, reps |-> r.val,
                        sets |-> s.val, record_date |-> today])
          [] first \in {"ValueError", "TypeError"} ->
               Outcome("ValidationError", "not_integer", first, NoVal)
          [] first = "ValidationError" ->
               Outcome("DatabaseServiceError", "out_of_range", first, NoVal)
          [] OTHER ->
               Outcome("DatabaseServiceError", "not_integer", first, NoVal)

\* lines 46-70 for the stripped exercise_type and the three raw numbers
NumericAndRange(exercise_type, weight, reps, sets, today) ==
    TryBlock(exercise_type, weight.t = "none" \/ reps.t = "none" \/ sets.t = "none",
             ToInt(weight), ToInt(reps), ToInt(sets), today)

MissingFields(data) == \E i \in 1..Len(required_fields) : ~HasKey(data, required_fields[i])

\* the numeric checks made before the checks of exercise_type
ValidateNumericFirst(data, today) ==
    IF MissingFields(data)
    THEN Outcome("ValidationError", "missing_fields", "ValidationError", NoVal)
    ELSE IF NumericAndRange(<<>>, Get(data, "weight"), Get(data, "reps"),
                            Get(data, "sets"), today).exc # "none"
    THEN NumericAndRange(<<>>, Get(data, "weight"), Get(data, "reps"),
                         Get(data, "sets"), today)
    ELSE IF Get(data, "exercise_type").t # "str"
    THEN Outcome("ValidationError", "exercise_type_not_string", "ValidationError", NoVal)
    ELSE IF Strip(Get(data, "exercise_type").s) \notin Allowed
    THEN Outcome("ValidationError", "exercise_type_not_allowed", "ValidationError", NoVal)
    ELSE NumericAndRange(Strip(Get(data, "exercise_type").s), Get(data, "weight"),
                         Get(data, "reps"), Get(data, "sets"), today)

\* the vocabulary check left out
ValidateAnyExercise(data, today) ==
    IF MissingFields(data)
    THEN Outcome("ValidationError", "missing_fields", "ValidationError", NoVal)
    ELSE IF Get(data, "exercise_type").t # "str"
    THEN Outcome("ValidationError", "exercise_type_not_string", "ValidationError", NoVal)
    ELSE NumericAndRange(Strip(Get(data, "exercise_type").s), Get(data, "weight"),
                         Get(data, "reps"), Get(data, "sets"), today)

\* validate_workout_data (lines 28-70)
validate_workout_data(data, today) ==
    IF MissingFields(data)
    THEN Outcome("ValidationError", "missing_fields", "ValidationError", NoVal)
    ELSE IF Get(data, "exercise_type").t # "str"
    THEN Outcome("ValidationError", "exercise_type_not_string", "ValidationError", NoVal)
    ELSE IF Strip(Get(data, "exercise_type").s) \notin Allowed
    THEN Outcome("ValidationError", "exercise_type_not_allowed", "ValidationError", NoVal)
    ELSE NumericAndRange(Strip(Get(data, "exercise_type").s), Get(data, "weight"),
                         Get(data, "reps"), Get(data, "sets"), today)

-----------------------------------------------------------------------------
(* parsers/text_parser.py *)

Bench == <<"ben", "chi">>
Dead == <<"de", "deu">>

\* EXERCISE_ALIASES, as a sequence of (alias, standard name) pairs
EXERCISE_ALIASES == <<<<Bench, BenchPress>>, <<Dead, Deadlift>>, <<Squat, Squat>>>>

\* ALLOWED_EXERCISE_TYPES of the parser module (the same list as the service's)
PARSER_ALLOWED_EXERCISE_TYPES == <<BenchPress, Deadlift, Squat>>

\* a str or None: None is the empty sequence (no name of the tables is empty)
NoExercise == <<>>

\* standardize_exercise_name that also takes the canonical names for themselves
StandardizeAcceptsCanonical(potential_exercise) ==
    IF \E i \in 1..Len(EXERCISE_ALIASES) : EXERCISE_ALIASES[i][1] = Strip(potential_exercise)
    THEN EXERCISE_ALIASES[CHOOSE i \in 1..Len(EXERCISE_ALIASES) :
                             EXERCISE_ALIASES[i][1] = Strip(potential_exercise)][2]
    ELSE IF \E i \in 1..Len(PARSER_ALLOWED_EXERCISE_TYPES) :
               PARSER_ALLOWED_EXERCISE_TYPES[i] = Strip(potential_exercise)
    THEN Strip(potential_exercise)
    ELSE NoExercise

\* EXERCISE_ALIASES.get(potential_exercise.strip(), None)
standardize_exercise_name(potential_exercise) ==
    LET key == Strip(potential_exercise)
    IN  IF \E i \in 1..Len(EXERCISE_ALIASES) : EXERCISE_ALIASES[i][1] = key
        THEN EXERCISE_ALIASES[CHOOSE i \in 1..Len(EXERCISE_ALIASES) :
                                  EXERCISE_ALIASES[i][1] = key][2]
        ELSE NoExercise

NoMatch == [match |-> FALSE, year |-> <<>>, month |-> <<>>, day |-> <<>>]

\* .*\]\s*$ on the rest of a date header: the last character that is no whitespace
\* is the bracket, and no line feed stands before it
ClosesBracket(rest) ==
    /\ RStrip(rest) # <<>>
    /\ rest[Len(RStrip(rest))] = "]"
    /\ \A i \in 1..Len(RStrip(rest)) : rest[i] # "\n"

\* \d{1,2}-\d{1,2}).*\]\s*$ on what follows the year and its hyphen
MonthAndDay(year, afterYear, monthLen, afterMonth, dayRun) ==
    IF /\ monthLen \in 1..2
       /\ Len(afterYear) > monthLen
       /\ afterYear[monthLen + 1] = "-"
       /\ dayRun >= 1
       /\ ClosesBracket(Drop(afterMonth, IF dayRun > 2 THEN 2 ELSE dayRun))
    THEN [match |-> TRUE, year |-> year, month |-> Take(afterYear, monthLen),
          day |-> Take(afterMonth, IF dayRun > 2 THEN 2 ELSE dayRun)]
    ELSE NoMatch

\* \d{4}-\d{1,2}-\d{1,2}).*\]\s*$ on what follows the opening bracket
BracketedDate(afterBracket) ==
    IF /\ Len(afterBracket) >= 5
       /\ DigitRun(Take(afterBracket, 4)) = 4
       /\ afterBracket[5] = "-"
    THEN MonthAndDay(Take(afterBracket, 4), Drop(afterBracket, 5),
                     DigitRun(Drop(afterBracket, 5)),
                     Drop(afterBracket, 5 + DigitRun(Drop(afterBracket, 5)) + 1),
                     DigitRun(Drop(afterBracket, 5 + DigitRun(Drop(afterBracket, 5)) + 1)))
    ELSE NoMatch

\* date_pattern.match(line), ^\s*\[(\d{4}-\d{1,2}-\d{1,2}).*\]\s*$ : whether the line
\* matches, and the digits of the year, the month and the day of group 1
date_pattern(line) ==
    IF LStrip(line) # <<>> /\ Head(LStrip(line)) = "["
    THEN BracketedDate(Tail(LStrip(line)))
    ELSE NoMatch

IsLeap(y) == (y % 4 = 0 /\ y % 100 # 0) \/ y % 400 = 0

DaysInMonth(y, m) ==
    IF m = 2 THEN (IF IsLeap(y) THEN 29 ELSE 28)
    ELSE IF m \in {4, 6, 9, 11} THEN 30
    ELSE 31

AsciiDigits == DigitChars[1]

\* the digits 1 .. 9 of ASCII, [1-9]
IsAscii19(c) == \E i \in 2..10 : AsciiDigits[i] = c

\* %m of strptime, 1[0-2]|0[1-9]|[1-9], on the whole of the digits
IsMonthText(month) ==
    \/ Len(month) = 1 /\ IsAscii19(month[1])
    \/ Len(month) = 2 /\ month[1] = "1" /\ month[2] \in {"0", "1", "2"}
    \/ Len(month) = 2 /\ month[1] = "0" /\ IsAscii19(month[2])

\* %d of strptime, 3[01]|[12]\d|0[1-9]|[1-9], on the whole of the digits
IsDayText(day) ==
    \/ Len(day) = 1 /\ IsAscii19(day[1])
    \/ Len(day) = 2 /\ day[1] = "3" /\ day[2] \in {"0", "1"}
    \/ Len(day) = 2 /\ day[1] \in {"1", "2"} /\ IsDigit(day[2])
    \/ Len(day) = 2 /\ day[1] = "0" /\ IsAscii19(day[2])

NoDate == [some |-> FALSE, v |-> <<0, 0, 0>>]

\* date(y, m, d): the date, or none on ValueError
DateOf(y, m, d) ==
    IF y >= 1 /\ m \in 1..12 /\ d >= 1 /\ d <= DaysInMonth(y, m)
    THEN [some |-> TRUE, v |-> <<y, m, d>>]
    ELSE NoDate

\* datetime.strptime(date_str, '%Y-%m-%d').date() for the group 1 of a match dm of
\* date_pattern: the date, or none on ValueError
strptime(dm) ==
    IF IsMonthText(dm.month) /\ IsDayText(dm.day)
    THEN DateOf(DigitsVal(dm.year), DigitsVal(dm.month), DigitsVal(dm.day))
    ELSE NoDate

\* weight_reps_pattern.match(line), (\d+)\s*\*\s*(\d+) at the start of the line:
\* whether the line matches, and the digits of groups 1 and 2
weight_reps_pattern(line) ==
    LET wLen == DigitRun(line)
        afterW == LStrip(Drop(line, wLen))
        afterStar == LStrip(Tail(afterW))
        rLen == DigitRun(afterStar)
        ok == /\ wLen >= 1
              /\ afterW # <<>> /\ Head(afterW) = "*"
              /\ rLen >= 1
    IN  IF ok
        THEN [match |-> TRUE, weight |-> Take(line, wLen), reps |-> Take(afterStar, rLen)]
        ELSE [match |-> FALSE, weight |-> <<>>, reps |-> <<>>]

\* the locals of parse
ParseState(d, e, n, recs) ==
    [current_date |-> d, current_exercise |-> e, set_count |-> n, records_list |-> recs]

InitialParseState == ParseState(NoDate, NoExercise, 0, <<>>)

\* lines 65-76: a line that matches date_pattern, the date left as it was when it
\* cannot be parsed
DateHeaderKeepsDate(st, dm) ==
    IF strptime(dm).some
    THEN ParseState(strptime(dm), NoExercise, 0, st.records_list)
    ELSE st

\* lines 65-76: a line that matches date_pattern
DateHeader(st, dm) ==
    IF strptime(dm).some
    THEN ParseState(strptime(dm), NoExercise, 0, st.records_list)
    ELSE ParseState(NoDate, st.current_exercise, st.set_count, st.records_list)

\* lines 89-108: the counter is incremented, then the record is built and appended
\* unless the constructor raises
AppendBuilt(st, built) ==
    IF built.exc # "none"
    THEN ParseState(st.current_date, st.current_exercise, st.set_count + 1, st.records_list)
    ELSE ParseState(st.current_date, st.current_exercise, st.set_count + 1,
                    Append(st.records_list, built.rec))

\* lines 86-108, given what int() made of the two groups: a ValueError of int()
\* leaves the locals as they were
Converted(st, weight, reps) ==
    IF weight.err # "none" \/ reps.err # "none" THEN st
    ELSE AppendBuilt(st, WorkoutRecord(st.current_date.v, st.current_exercise,
                                       weight.val, reps.val, PyInt(st.set_count + 1), None))

\* lines 80-108: a line that matches weight_reps_pattern
SetLine(st, wr) ==
    IF st.current_date.some /\ st.current_exercise # NoExercise
    THEN Converted(st, IntOfStr(wr.weight), IntOfStr(wr.reps))
    ELSE st

\* lines 112-132: a line that is neither a date header nor a set line
OtherLine(st, line) ==
    LET standardized_exercise == standardize_exercise_name(line)
    IN  IF st.current_date.some
           /\ \E i \in 1..Len(PARSER_ALLOWED_EXERCISE_TYPES) :
                 PARSER_ALLOWED_EXERCISE_TYPES[i] = standardized_exercise
        THEN ParseState(st.current_date, standardized_exercise, 0, st.records_list)
        ELSE st

\* one iteration of the loop of parse (lines 55-132) on the locals st
ParseLine(st, rawline) ==
    LET line == Strip(rawline)
    IN  IF line = <<>> THEN st
        ELSE IF date_pattern(line).match THEN DateHeader(st, date_pattern(line))
        ELSE IF weight_reps_pattern(line).match THEN SetLine(st, weight_reps_pattern(line))
        ELSE OtherLine(st, line)

\* parse that returns the records built so far when reading fails
ParseExceptReturnsPartial(st) == st.records_list

\* lines 137-142: the handlers of FileNotFoundError and of Exception return []
ParseExcept(st) == <<>>

\* lines 134-135: the end of the file is reached
ParseReturn(st) == st.records_list

\* the loop of parse over the lines of a file that is read without error
RECURSIVE ParseLines(_, _)
ParseLines(st, file) ==
    IF file = <<>> THEN st ELSE ParseLines(ParseLine(st, Head(file)), Tail(file))

\* parse(file_path) for a file that opens and reads without error
parse(file) == ParseLines(InitialParseState, file).records_list

-----------------------------------------------------------------------------
(* database/postgres_manager.py.  The manager is m = [conn, store, pending]: its   *)
(* connection, and the backend's table as the connection reaches it: the committed *)
(* rows and the rows its open transaction has written.  A row is a record's tuple  *)
(* with the number of the insert_records call that wrote it.                       *)

Manager(c, st, pe) == [conn |-> c, store |-> st, pending |-> pe]

\* what the backend does during a call: whether psycopg2.connect succeeds, how
\* executemany (or the query) ends, after how many rows, whether commit succeeds,
\* and whether the psycopg2.Error of executemany, of commit or of the query is the
\* loss of the connection: the connection is closed (closed != 0) from that
\* statement on, its transaction is gone, and rollback() on it raises InterfaceError
Backend(connectOk, exec, at, commitOk, lost) ==
    [connectOk |-> connectOk, exec |-> exec, at |-> at, commitOk |-> commitOk,
     lost |-> lost]

\* the result of a call on the manager that returns: the manager after it, the value
\* returned, the number of connection attempts made and the handler that ran
Result(m, ret, attempts, err) ==
    [m |-> m, ret |-> ret, attempts |-> attempts, err |-> err, exc |-> "none",
     lost |-> FALSE]

\* the result of a call that returns ret after the connection was lost during it
Lost(m, ret, attempts, err) ==
    [m |-> Manager("closed", m.store, <<>>), ret |-> ret, attempts |-> attempts,
     err |-> err, exc |-> "none", lost |-> TRUE]

\* the result of a call on the manager that raises exc out of the handler err, the
\* connection lost: no value is returned (ret is -1)
Raised(m, attempts, err, exc) ==
    [m |-> Manager("closed", m.store, <<>>), ret |-> -1, attempts |-> attempts,
     err |-> err, exc |-> exc, lost |-> TRUE]

\* connect that opens a new connection every time
ConnectAlways(m, bk) ==
    IF bk.connectOk
    THEN Result(Manager("open", m.store, <<>>), TRUE, 1, "none")
    ELSE Result(Manager("none", m.store, <<>>), FALSE, 1, "connect")

\* connect (lines 18-37)
connect(m, bk) ==
    IF m.conn = "none" \/ m.conn = "closed"
    THEN IF bk.connectOk
         THEN Result(Manager("open", m.store, <<>>), TRUE, 1, "none")
         ELSE Result(Manager("none", m.store, <<>>), FALSE, 1, "connect")
    ELSE Result(m, TRUE, 0, "none")

\* close (lines 39-47): self._cur is never set; closing the connection discards
\* what its open transaction wrote
close(m) ==
    IF m.conn # "none" THEN Manager("none", m.store, <<>>) ELSE m

\* _get_cursor (lines 49-56): whether a cursor is returned
get_cursor(m) == ~(m.conn = "none" \/ m.conn = "closed")

Row(rec, batchNo) == [t |-> to_tuple(rec), batch |-> batchNo]

Rows(records, batchNo) == [i \in 1..Len(records) |-> Row(records[i], batchNo)]

\* insert_records whose commit leaves only the rows of the batch in the table
InsertBatchOverwrites(m, records, batchNo, bk) ==
    IF ~get_cursor(m) THEN Result(m, 0, 0, "none")
    ELSE IF bk.exec = "ok" /\ bk.commitOk
    THEN Result(Manager(m.conn, Rows(records, batchNo), <<>>), Len(records), 0, "none")
    ELSE Result(Manager(m.conn, m.store, <<>>), 0, 0, "psycopg2.Error")

\* the try statement of insert_records (lines 76-98) on a connected manager:
\* executemany and commit; a psycopg2.Error (of executemany or of commit) is rolled
\* back, and 0 is returned, unless the error was the loss of the connection:
\* rollback() of line 90 then raises, the handler does not protect it, and its
\* InterfaceError leaves insert_records, with the connection closed.  Any other exception is only logged,
\* and the rows executemany wrote before it stay in the open transaction
InsertBatch(m, records, batchNo, bk) ==
    IF ~get_cursor(m) THEN Result(m, 0, 0, "none")
    ELSE IF bk.exec = "ok" /\ bk.commitOk
    THEN Result(Manager(m.conn, m.store \o m.pending \o Rows(records, batchNo), <<>>),
                Len(records), 0, "none")
    ELSE IF (bk.exec = "ok" \/ bk.exec = "psycopg2.Error") /\ bk.lost
    THEN Raised(m, 0, "psycopg2.Error", "InterfaceError")
    ELSE IF bk.exec = "ok" \/ bk.exec = "psycopg2.Error"
    THEN Result(Manager(m.conn, m.store, <<>>), 0, 0, "psycopg2.Error")
    ELSE Result(Manager(m.conn, m.store,
                        m.pending \o SubSeq(Rows(records, batchNo), 1, bk.at)),
                0, 0, "Exception")

\* lines 69-98 of insert_records, given what connect returned
InsertConnected(c, records, batchNo, bk) ==
    IF ~c.ret THEN Result(c.m, 0, c.attempts, "connect")
    ELSE [InsertBatch(c.m, records, batchNo, bk) EXCEPT !.attempts = c.attempts]

\* insert_records without the test for an empty list
InsertRecordsNoEmptyTest(m, records, batchNo, bk) ==
    InsertConnected(connect(m, bk), records, batchNo, bk)

\* insert_records (lines 58-98)
insert_records(m, records, batchNo, bk) ==
    IF records = <<>> THEN Result(m, 0, 0, "none")
    ELSE InsertConnected(connect(m, bk), records, batchNo, bk)

\* dict(zip(columns, row)) for the columns of table records
RowDict(row) ==
    [record_date |-> row.t[1], exercise_type |-> row.t[2], weight |-> row.t[3],
     reps |-> row.t[4], sets |-> row.t[5], estimated_1rm |-> row.t[6], batch |-> row.batch]

\* lines 105-128 of fetch_records, given what connect returned.  Both handlers
\* only log, and self._conn is not touched: the connection is as the query left
\* it, closed when the psycopg2.Error of the query was the loss of the connection
FetchConnected(c, visible, bk) ==
    IF ~c.ret THEN Result(c.m, <<>>, c.attempts, "connect")
    ELSE IF ~get_cursor(c.m) THEN Result(c.m, <<>>, c.attempts, "none")
    ELSE IF bk.exec = "ok"
    THEN Result(c.m, [i \in 1..Len(visible) |-> RowDict(visible[i])], c.attempts, "none")
    ELSE IF bk.exec = "psycopg2.Error" /\ bk.lost
    THEN Lost(c.m, <<>>, c.attempts, bk.exec)
    ELSE Result(c.m, <<>>, c.attempts, bk.exec)

\* fetch_records that closes the connection before it returns
FetchRecordsCloses(m, bk) ==
    [FetchConnected(connect(m, bk), m.store, bk) EXCEPT !.m = close(@)]

\* fetch_records (lines 100-128) for a query that selects every row: the rows the
\* connection sees are the committed ones and those of its own open transaction
fetch_records(m, bk) ==
    FetchConnected(connect(m, bk), m.store \o (IF m.conn = "open" THEN m.pending ELSE <<>>), bk)

-----------------------------------------------------------------------------
(* services/workout_service.py: add_record *)

\* the result of add_record: the manager after it, the exception that escapes, the
\* record built, the count insert_records reported (-1 when it reported none: it
\* was not called, or it raised) and the exception insert_records raised
Added(m, exc, rule, rec, count, attempts) ==
    [m |-> m, exc |-> exc, rule |-> rule, rec |-> rec, count |-> count, attempts |-> attempts,
     raised |-> "none"]

\* lines 80-86: the record built from the validated data
NewRecord(val) ==
    WorkoutRecord(val.record_date, val.exercise_type, val.weight, val.reps, val.sets, None)

\* lines 80-86 with the client's estimated_1rm handed to the record
NewRecordTrustsClient(val, x) ==
    WorkoutRecord(val.record_date, val.exercise_type, val.weight, val.reps, val.sets,
                  IF x.err = "none" /\ ~x.val.huge THEN Some(x.val.n) ELSE None)

\* lines 90-104: what add_record does with the count insert_records reported; an
\* exception of insert_records is taken by the handler of line 102
Saved(ins, new_record) ==
    IF ins.exc # "none"
    THEN [Added(ins.m, "DatabaseServiceError", "insert", new_record, -1, ins.attempts)
             EXCEPT !.raised = ins.exc]
    ELSE IF ins.ret = 0
    THEN Added(ins.m, "DatabaseServiceError", "insert", new_record, ins.ret, ins.attempts)
    ELSE Added(ins.m, "none", "none", new_record, ins.ret, ins.attempts)

\* lines 80-104, given what the constructor gave.  An exception of the constructor
\* is no ValidationError: the handler of line 102 raises a DatabaseServiceError, and
\* insert_records is not called.  Otherwise the record is inserted as a batch of one
Save(m, built, batchNo, bk) ==
    IF built.exc # "none"
    THEN Added(m, "DatabaseServiceError", "record", NoRecord, -1, 0)
    ELSE Saved(insert_records(m, <<built.rec>>, batchNo, bk), built.rec)

\* lines 77-104 with the client's estimated_1rm handed to the record
ValidatedTrustsClient(m, v, raw_data, batchNo, bk) ==
    IF v.exc # "none" THEN Added(m, v.exc, v.rule, NoRecord, -1, 0)
    ELSE Save(m, NewRecordTrustsClient(v.val, ToInt(Get(raw_data, "estimated_1rm"))),
              batchNo, bk)

\* lines 77-104, given what validate_workout_data gave: a ValidationError passes
\* unchanged, the DatabaseServiceError of the validator leaves as a
\* DatabaseServiceError
Validated(m, v, raw_data, batchNo, bk) ==
    IF v.exc # "none" THEN Added(m, v.exc, v.rule, NoRecord, -1, 0)
    ELSE Save(m, NewRecord(v.val), batchNo, bk)

\* add_record (lines 73-104)
add_record(m, raw_data, today, batchNo, bk) ==
    Validated(m, validate_workout_data(raw_data, today), raw_data, batchNo, bk)

\* the rows a connection of m reaches: the committed ones and those of its own
\* open transaction
Visible(m) == m.store \o (IF m.conn = "open" THEN m.pending ELSE <<>>)

DateBefore(a, b) ==
    \/ a[1] < b[1]
    \/ a[1] = b[1] /\ a[2] < b[2]
    \/ a[1] = b[1] /\ a[2] = b[2] /\ a[3] < b[3]

\* a <= b for ints; of two ints kept by the same sign either may be the smaller
IntLeq(a, b) ==
    CASE ~a.huge /\ ~b.huge -> a.n <= b.n
      [] a.huge /\ ~b.huge -> a.n < 0
      [] ~a.huge /\ b.huge -> b.n > 0
      [] OTHER -> a.n <= b.n

\* ORDER BY record_date DESC, sets ASC: row a may stand before row b
MayPrecede(a, b) ==
    \/ DateBefore(b.t[1], a.t[1])
    \/ a.t[1] = b.t[1] /\ IntLeq(a.t[5], b.t[5])

\* the results "SELECT * FROM records ORDER BY record_date DESC, sets ASC" may
\* give on the rows: every arrangement of them in that order
OrderBy(rows) ==
    {[i \in 1..Len(rows) |-> rows[p[i]]] :
        p \in {q \in [1..Len(rows) -> 1..Len(rows)] :
                 /\ \A i, j \in 1..Len(rows) : i # j => q[i] # q[j]
                 /\ \A i, j \in 1..Len(rows) : i < j => MayPrecede(rows[q[i]], rows[q[j]])}}

\* the result of "SELECT * FROM records WHERE id = %s": the one row of that id,
\* if the connection reaches it; the ids are the positions of the rows
ById(rows, record_id) ==
    IF record_id \in 1..Len(rows) THEN <<rows[record_id]>> ELSE <<>>

\* get_all_records (lines 107-112): fetch_records on the ordered query, of which
\* result is the result
get_all_records(m, result, bk) == FetchConnected(connect(m, bk), result, bk)

-----------------------------------------------------------------------------
(* api/app.py and api/workout_routes.py *)

\* what get_db_manager gives: g.db_manager after the call and the number of
\* managers constructed so far
Got(gv, n) == [g |-> gv, created |-> n]

\* get_db_manager that constructs a manager on every call
GetDbManagerAlwaysNew(gv, n) == Got(n + 1, n + 1)

\* get_db_manager (app.py lines 23-39): gv is g.db_manager (0: absent), n the
\* number of managers constructed during the request
get_db_manager(gv, n) ==
    IF gv = 0 THEN Got(n + 1, n + 1) ELSE Got(gv, n)

\* the manager get_db_manager returns: a new one holds no connection
ManagerOfRequest(gv, m) ==
    IF gv = 0 THEN Manager("none", m.store, <<>>) ELSE m

\* close_db_manager (app.py lines 42-48): g.pop, and close on the manager popped
close_db_manager(gv, m) ==
    IF gv # 0 THEN close(m) ELSE m

\* the response of a route: the status, the manager after it, the record built,
\* the count insert_records reported (-1 when it reported none: it was not called,
\* or it raised) and the exception insert_records raised
Response(status, m, rec, count, attempts) ==
    [status |-> status, m |-> m, rec |-> rec, count |-> count, attempts |-> attempts,
     raised |-> "none"]

\* add_workout_record lines 113-134: insert the record, answer by the count; an
\* exception of insert_records is answered by the handler of line 131
RouteSaved(ins, new_record) ==
    IF ins.exc # "none"
    THEN [Response(500, ins.m, new_record, -1, ins.attempts) EXCEPT !.raised = ins.exc]
    ELSE IF ins.ret > 0
    THEN Response(201, ins.m, new_record, ins.ret, ins.attempts)
    ELSE Response(500, ins.m, new_record, ins.ret, ins.attempts)

\* add_workout_record lines 96-134, given what the constructor gave: an exception
\* of the constructor is answered by 500, with no manager asked for
RouteBuilt(m, built, batchNo, bk) ==
    IF built.exc # "none" THEN Response(500, m, NoRecord, -1, 0)
    ELSE RouteSaved(insert_records(m, <<built.rec>>, batchNo, bk), built.rec)

\* add_workout_record lines 69-134, given whether one of the three values is None
\* and what int() makes of each
RouteTry(m, exercise_type, anyNone, w, r, s, today, batchNo, bk) ==
    IF anyNone THEN Response(400, m, NoRecord, -1, 0)
    ELSE IF w.err # "none"
    THEN Response(IF w.err \in {"ValueError", "TypeError"} THEN 400 ELSE 500,
                  m, NoRecord, -1, 0)
    ELSE IF r.err # "none"
    THEN Response(IF r.err \in {"ValueError", "TypeError"} THEN 400 ELSE 500,
                  m, NoRecord, -1, 0)
    ELSE IF s.err # "none"
    THEN Response(IF s.err \in {"ValueError", "TypeError"} THEN 400 ELSE 500,
                  m, NoRecord, -1, 0)
    ELSE IF Sign(w.val) < 0 \/ Sign(r.val) < 0 \/ Sign(s.val) <= 0
    THEN Response(400, m, NoRecord, -1, 0)
    ELSE RouteBuilt(m, WorkoutRecord(today, exercise_type, w.val, r.val, s.val, None),
                    batchNo, bk)

\* add_workout_record lines 69-134 for the stripped exercise_type
RouteNumbers(m, exercise_type, weight, reps, sets, today, batchNo, bk) ==
    RouteTry(m, exercise_type,
             weight.t = "none" \/ reps.t = "none" \/ sets.t = "none",
             ToInt(weight), ToInt(reps), ToInt(sets), today, batchNo, bk)

\* add_workout_record (workout_routes.py lines 26-134) on the manager m that
\* get_db_manager returns
add_workout_record(m, data, today, batchNo, bk) ==
    IF MissingFields(data) THEN Response(400, m, NoRecord, -1, 0)
    ELSE IF Get(data, "exercise_type").t # "str" THEN Response(400, m, NoRecord, -1, 0)
    ELSE IF Strip(Get(data, "exercise_type").s) \notin Allowed
    THEN Response(400, m, NoRecord, -1, 0)
    ELSE RouteNumbers(m, Strip(Get(data, "exercise_type").s), Get(data, "weight"),
                      Get(data, "reps"), Get(data, "sets"), today, batchNo, bk)

\* get_workout_records (workout_routes.py lines 138-155)
get_workout_records(m, result, bk) == FetchConnected(connect(m, bk), result, bk)

\* get_workout_record (workout_routes.py lines 158-186): the rows fetched
get_workout_record(m, record_id, bk) ==
    FetchConnected(connect(m, bk), ById(Visible(m), record_id), bk)

-----------------------------------------------------------------------------
(* Inputs *)

Dates == {<<2024, 1, 10>>, <<2024, 1, 11>>}

\* date.today() while the service runs
ServiceDates == {<<2024, 1, 11>>}

ExerciseSamples ==
    {Absent, NoneV, IntV(1), StrV(BenchPress), StrV(Deadlift),
     StrV(<<"U+3000", " ">> \o Squat \o <<"\n", "U+0085", "\t">>),
     StrV(<<"ben", "chi">>), StrV(<<"r", "u", "n">>), StrV(<<>>)}

\* a literal of more than FloatMaxDigits digits
HugeLiteral == [i \in 1..(FloatMaxDigits + 1) |-> "9"]

NumberSamples ==
    {Absent, NoneV, InfV, NanV, ListV, BoolV(TRUE), FloatV(15), FloatV(-5),
     HugeIntV(1), HugeIntV(-1)}
    \cup {IntV(n) : n \in -1..MaxInt}
    \cup {StrV(<<"U+0665">>), StrV(<<"\n", "1", "U+FF12", "U+3000">>), StrV(<<"-", "1">>),
          StrV(<<"+", "3">>), StrV(<<"1", "_", "0">>), StrV(<<"U+001F", "1">>),
          StrV(<<"a", "b", "c">>), StrV(<<"1", ".", "5">>), StrV(<<>>),
          StrV(<<"-">> \o HugeLiteral)}

RawMapping(e, w, r, s, x, d) ==
    [k \in Keys |-> CASE k = "exercise_type" -> e
                      [] k = "weight" -> w
                      [] k = "reps" -> r
                      [] k = "sets" -> s
                      [] k = "estimated_1rm" -> x
                      [] OTHER -> d]

ValidatorInputs ==
    {RawMapping(e, w, r, s, Absent, Absent) :
        e \in ExerciseSamples, w \in NumberSamples, r \in NumberSamples, s \in NumberSamples}

EmptyMapping == RawMapping(Absent, Absent, Absent, Absent, Absent, Absent)

Op(op, raw, batch, batchNo, today, ret, exc, rec, attempts) ==
    [op |-> op, raw |-> raw, batch |-> batch, batchNo |-> batchNo, today |-> today,
     ret |-> ret, exc |-> exc, rec |-> rec, attempts |-> attempts,
     err |-> "none", status |-> 0, raised |-> "none", lost |-> FALSE]

NoOp == Op("none", EmptyMapping, <<>>, 0, <<0, 0, 0>>, 0, "none", NoRecord, 0)

NotCalled == Outcome("not_called", "none", "none", NoVal)

-----------------------------------------------------------------------------
(* The validator applied to one raw mapping *)

ValidateIdle ==
    /\ vIn = EmptyMapping
    /\ vOut = NotCalled

DbIdle ==
    /\ conn = "none"
    /\ store = <<>>
    /\ pending = <<>>
    /\ nextBatch = 1
    /\ failed = {}
    /\ lastOp = NoOp

ParseIdle ==
    /\ lines = <<>>
    /\ current_date = NoDate
    /\ current_exercise = <<>>
    /\ set_count = 0
    /\ records_list = <<>>
    /\ scan = "scanning"
    /\ returned = <<>>

ApiIdle ==
    /\ phase = "idle"
    /\ g = 0
    /\ created = 0
    /\ got = {}

InitValidate ==
    /\ vIn \in ValidatorInputs
    /\ vOut = NotCalled
    /\ DbIdle
    /\ ParseIdle
    /\ ApiIdle

Validate ==
    /\ vOut = NotCalled
    /\ \E today \in Dates : vOut' = validate_workout_data(vIn, today)
    /\ UNCHANGED <<vIn, dbVars, parseVars, apiVars>>

NextValidate == Validate

SpecValidate == InitValidate /\ [][NextValidate]_vars

Called == vOut # NotCalled

Convertible(v) == v.t # "none" /\ ToInt(v).err = "none"

\* the rules of the validator, each taken on its own
Violates(n, data) ==
    CASE n = 1 -> \E i \in 1..Len(required_fields) : ~HasKey(data, required_fields[i])
      [] n = 2 -> Get(data, "exercise_type").t # "str"
      [] n = 3 -> ~(Get(data, "exercise_type").t = "str"
                    /\ \E i \in 1..Len(ALLOWED_EXERCISE_TYPES) :
                          Strip(Get(data, "exercise_type").s) = ALLOWED_EXERCISE_TYPES[i])
      [] n = 4 -> \E k \in {"weight", "reps", "sets"} : ~Convertible(Get(data, k))
      [] OTHER -> \/ Convertible(Get(data, "weight")) /\ Sign(ToInt(Get(data, "weight")).val) < 0
                  \/ Convertible(Get(data, "reps")) /\ Sign(ToInt(Get(data, "reps")).val) < 0
                  \/ Convertible(Get(data, "sets")) /\ Sign(ToInt(Get(data, "sets")).val) <= 0

RuleNames ==
    <<"missing_fields", "exercise_type_not_string", "exercise_type_not_allowed",
      "not_integer", "out_of_range">>

ViolatedRules(data) == {n \in 1..5 : Violates(n, data)}

Earliest(S) == CHOOSE n \in S : \A m \in S : n <= m

\* C1 (as claimed): an input with the four keys, an exercise_type that trims to a
\* member of the vocabulary and three convertible numbers of which one is out of
\* range makes validate_workout_data fail with a ValidationError
C1_RangeErrorIsValidationError ==
    (Called /\ ViolatedRules(vIn) = {5}) => vOut.exc = "ValidationError"

\* C4: the validator reports the earliest rule, in the order missing fields,
\* exercise_type not a string, exercise_type not in the vocabulary, non-numeric
\* field, out-of-range value, that the input violates, and accepts the input
\* exactly when it violates none
C4_FirstViolatedRuleReported ==
    Called =>
        IF ViolatedRules(vIn) = {}
        THEN vOut.exc = "none" /\ vOut.rule = "none"
        ELSE /\ vOut.exc # "none"
             /\ vOut.rule = RuleNames[Earliest(ViolatedRules(vIn))]
             /\ Earliest(ViolatedRules(vIn)) <= 3 => vOut.exc = "ValidationError"

\* an input that violates several rules was validated and a later rule it
\* violates was not the one reported
C4_Witness ==
    /\ Called
    /\ Cardinality(ViolatedRules(vIn)) >= 3
    /\ Earliest(ViolatedRules(vIn)) = 2
    /\ 5 \in ViolatedRules(vIn)
    /\ vOut.rule = "exercise_type_not_string"

-----------------------------------------------------------------------------
(* The importer scanning a file line by line *)

LineSamples ==
    {<<"[", "2", "0", "2", "4", "-", "1", "-", "1", "0", "]", "\n">>,
     <<"U+3000", "[", "U+FF12", "0", "2", "3", "-", "1", "2", "-", "3", "1", "5", " ", "x",
       "]", "\n">>,
     <<"[", "2", "0", "2", "4", "-", "1", "3", "-", "1", "]", "\n">>,
     <<"[", "2", "0", "2", "4", "-", "U+FF11", "-", "1", "0", "]", "\n">>,
     Bench \o <<"\n">>,
     <<"U+00A0">> \o Dead \o <<"\t", "\n">>,
     BenchPress \o <<"\n">>,
     <<"1", "0", "0", "*", "5", "\n">>,
     <<"U+0668", "0", "U+2003", "*", "\t", "8", "k", "g", "\n">>,
     <<"1", "*">> \o HugeLiteral \o <<"\n">>,
     <<"U+0085", "\n">>}

InitParse ==
    /\ ValidateIdle
    /\ DbIdle
    /\ ParseIdle
    /\ ApiIdle

ScanLine ==
    /\ scan = "scanning"
    /\ Len(lines) < MaxLines
    /\ \E l \in LineSamples :
          LET st == ParseLine(ParseState(current_date, current_exercise, set_count,
                                         records_list), l)
          IN  /\ lines' = Append(lines, l)
              /\ current_date' = st.current_date
              /\ current_exercise' = st.current_exercise
              /\ set_count' = st.set_count
              /\ records_list' = st.records_list
    /\ UNCHANGED <<valVars, dbVars, apiVars, scan, returned>>

NextParse == ScanLine

Locals == ParseState(current_date, current_exercise, set_count, records_list)

\* the end of the file: parse returns records_list
EndOfFile ==
    /\ scan = "scanning"
    /\ scan' = "returned"
    /\ returned' = ParseReturn(Locals)
    /\ UNCHANGED <<lines, current_date, current_exercise, set_count, records_list,
                   valVars, dbVars, apiVars>>

\* open fails (no line read yet), or reading or decoding the next line fails
ReadFails ==
    /\ scan = "scanning"
    /\ scan' = "failed"
    /\ returned' = ParseExcept(Locals)
    /\ UNCHANGED <<lines, current_date, current_exercise, set_count, records_list,
                   valVars, dbVars, apiVars>>

NextParseIO ==
    \/ ScanLine
    \/ EndOfFile
    \/ ReadFails

SpecParseIO == InitParse /\ [][NextParseIO]_vars

SpecParse == InitParse /\ [][NextParse]_vars

\* the kinds of line of the file format, read off the history of lines
IsDateLine(l) == date_pattern(Strip(l)).match

IsValidDateLine(l) == IsDateLine(l) /\ strptime(date_pattern(Strip(l))).some

IsBadDateLine(l) == IsDateLine(l) /\ ~strptime(date_pattern(Strip(l))).some

IsSetLine(l) == ~IsDateLine(l) /\ weight_reps_pattern(Strip(l)).match

IsAliasLine(l) ==
    /\ ~IsDateLine(l) /\ ~IsSetLine(l)
    /\ \E i \in 1..Len(EXERCISE_ALIASES) : EXERCISE_ALIASES[i][1] = Strip(l)

AliasOf(l) ==
    EXERCISE_ALIASES[CHOOSE i \in 1..Len(EXERCISE_ALIASES) : EXERCISE_ALIASES[i][1] = Strip(l)][2]

\* the kind of each line of h
KindOf(l) ==
    IF IsValidDateLine(l) THEN "date"
    ELSE IF IsBadDateLine(l) THEN "bad_date"
    ELSE IF IsSetLine(l) THEN "set"
    ELSE IF IsAliasLine(l) THEN "alias"
    ELSE "other"

DateKinds == {"date", "bad_date"}

\* the kinds of the lines h, in order
RECURSIVE Kinds(_)
Kinds(h) == IF h = <<>> THEN <<>> ELSE <<KindOf(Head(h))>> \o Kinds(Tail(h))

\* what the file format says of the lines h, for every prefix of h:
\*   lastDate[n]    the last date header among the first n lines, 0 if there is none
\*   dateActive[n]  a date is active after the first n lines
\*   header[i]      line i starts a new block: a valid date header, or a recognised
\*                  exercise header (an alias scanned while a date is active)
\*   lastHeader[n]  the last such header among the first n lines, 0 if there is none
\*   accepted[i]    line i is a set line scanned with a date and an exercise active
Blocks(h) ==
    LET N == Len(h)
        kind == Kinds(h)
        lastDate ==
            [n \in 0..N |->
                IF \E j \in 1..n : kind[j] \in DateKinds
                THEN CHOOSE j \in 1..n :
                        kind[j] \in DateKinds /\ \A k \in (j + 1)..n : kind[k] \notin DateKinds
                ELSE 0]
        dateActive == [n \in 0..N |-> lastDate[n] > 0 /\ kind[lastDate[n]] = "date"]
        header ==
            [i \in 1..N |-> kind[i] = "date" \/ (kind[i] = "alias" /\ dateActive[i - 1])]
        lastHeader ==
            [n \in 0..N |->
                IF \E j \in 1..n : header[j]
                THEN CHOOSE j \in 1..n : header[j] /\ \A k \in (j + 1)..n : ~header[k]
                ELSE 0]
        accepted ==
            [i \in 1..N |->
                /\ kind[i] = "set"
                /\ dateActive[i - 1]
                /\ lastHeader[i - 1] > 0 /\ kind[lastHeader[i - 1]] = "alias"]
    IN  [kind |-> kind, lastDate |-> lastDate, dateActive |-> dateActive,
         lastHeader |-> lastHeader, accepted |-> accepted]

\* the accepted set lines after the last header among the first n lines, up to line n
AcceptedSinceHeader(B, n) == {j \in (B.lastHeader[n] + 1)..n : B.accepted[j]}

\* the record an accepted set line i is to yield
ExpectedRecord(h, B, i) ==
    LET wr == weight_reps_pattern(Strip(h[i]))
        weight == IntOfStr(wr.weight).val
        reps == IntOfStr(wr.reps).val
    IN  [record_date |-> strptime(date_pattern(Strip(h[B.lastDate[i - 1]]))).v,
         exercise_type |-> AliasOf(h[B.lastHeader[i - 1]]),
         weight |-> weight,
         reps |-> reps,
         sets |-> PyInt(Cardinality(AcceptedSinceHeader(B, i))),
         estimated_1rm |-> estimate_1rm_epley(Some(weight), Some(reps)).val]

\* the k-th of the lines A
Nth(A, k) == CHOOSE i \in A : Cardinality({j \in A : j < i}) = k - 1

\* C7 (as claimed): the set counter is the number of set lines accepted since the most recent
\* valid date header or recognised exercise header; the k-th such line yields a
\* record with sets = k that carries the current date and exercise, and the records
\* are in the output in file order
C7_SetSequenceCounter ==
    LET B == Blocks(lines)
        A == {i \in 1..Len(lines) : B.accepted[i]}
    IN  /\ set_count = Cardinality(AcceptedSinceHeader(B, Len(lines)))
        /\ Len(records_list) = Cardinality(A)
        /\ \A k \in 1..Len(records_list) :
              records_list[k] = ExpectedRecord(lines, B, Nth(A, k))

\* the line read by the step
NewLine == lines'[Len(lines')]

\* C8 (as claimed): a set line yields a record exactly when a date and an exercise are active;
\* otherwise it changes neither the records nor the date, the exercise or the counter
C8_SetLineNeedsContext ==
    [][(Len(lines') = Len(lines) + 1 /\ IsSetLine(NewLine)) =>
          IF current_date.some /\ current_exercise # NoExercise
          THEN /\ Len(records_list') = Len(records_list) + 1
               /\ SubSeq(records_list', 1, Len(records_list)) = records_list
               /\ UNCHANGED <<current_date, current_exercise>>
          ELSE UNCHANGED <<current_date, current_exercise, set_count, records_list>>]_vars

\* C9: a date header that cannot be parsed sets the date to none and changes nothing
\* else; from it until the next valid date header no line yields a record or changes
\* the current exercise
C9_BadDateSuspendsBlock ==
    [][(Len(lines') = Len(lines) + 1) =>
          /\ IsBadDateLine(NewLine) =>
                /\ current_date' = NoDate
                /\ UNCHANGED <<current_exercise, set_count, records_list>>
          /\ (Blocks(lines).lastDate[Len(lines)] > 0
              /\ ~Blocks(lines).dateActive[Len(lines)]
              /\ ~IsValidDateLine(NewLine)) =>
                /\ ~current_date'.some
                /\ UNCHANGED <<current_exercise, records_list>>]_vars

\* after a date, an exercise and a date header that cannot be parsed, a set line was
\* scanned: no record, and the exercise is still the current one
C9_Witness ==
    /\ Len(lines) = 4
    /\ IsValidDateLine(lines[1])
    /\ IsAliasLine(lines[2])
    /\ IsBadDateLine(lines[3])
    /\ IsSetLine(lines[4])
    /\ records_list = <<>>
    /\ current_exercise = AliasOf(lines[2])
    /\ ~current_date.some

-----------------------------------------------------------------------------
(* The manager and the service under any sequence of calls *)

ImportLines ==
    {<<"[", "2", "0", "2", "4", "-", "1", "-", "1", "0", "]", "\n">>,
     Bench \o <<"\n">>,
     <<"1", "0", "0", "*", "U+FF15", "\n">>}

RECURSIVE FilesOfLen(_)
FilesOfLen(n) ==
    IF n = 0 THEN {<<>>}
    ELSE {Append(f, l) : f \in FilesOfLen(n - 1), l \in ImportLines}

ImportFiles == UNION {FilesOfLen(n) : n \in 0..MaxFileLen}

\* the record lists the importer hands to insert_records
ImportBatches == {parse(f) : f \in ImportFiles}

\* request bodies given to add_record; the client's estimated_1rm and record_date
\* are not the ones of the record
ServiceInputs ==
    {RawMapping(StrV(BenchPress), StrV(<<"1", "_", "0", "0">>), IntV(5), IntV(1), IntV(999),
                IntV(19990101)),
     RawMapping(StrV(<<"U+3000">> \o Squat \o <<"\n">>), StrV(<<"U+0660">>), FloatV(15),
                BoolV(TRUE), Absent, Absent),
     RawMapping(StrV(Deadlift), HugeIntV(1), IntV(5), IntV(1), Absent, Absent),
     RawMapping(StrV(Deadlift), IntV(15), IntV(1), IntV(0), IntV(999), Absent),
     RawMapping(StrV(<<"r", "u", "n">>), IntV(100), IntV(5), IntV(1), Absent, Absent),
     RawMapping(StrV(BenchPress), IntV(100), Absent, IntV(1), Absent, Absent)}

\* the outcomes of the backend during a call on n records (a query when n = 0);
\* only a psycopg2.Error of executemany, of commit or of the query can be the loss
\* of the connection
BackendOutcomes(n) ==
    {Backend(c, "ok", 0, k, FALSE) : c \in BOOLEAN, k \in BOOLEAN}
    \cup {Backend(TRUE, e, at, TRUE, FALSE) :
            e \in {"psycopg2.Error", "Exception"}, at \in 0..(IF n = 0 THEN 0 ELSE n - 1)}
    \cup {Backend(TRUE, "ok", 0, FALSE, TRUE)}
    \cup {Backend(TRUE, "psycopg2.Error", at, TRUE, TRUE) :
            at \in 0..(IF n = 0 THEN 0 ELSE n - 1)}

Init ==
    /\ ValidateIdle
    /\ ParseIdle
    /\ DbIdle
    /\ ApiIdle

Self == Manager(conn, store, pending)

SetManager(m) ==
    /\ conn' = m.conn
    /\ store' = m.store
    /\ pending' = m.pending

Room(n) == Len(store) + Len(pending) + n <= MaxStore /\ nextBatch <= MaxBatches

Idle(op) == Op(op, EmptyMapping, <<>>, 0, <<0, 0, 0>>, 0, "none", NoRecord, 0)

Connected(r) ==
    /\ SetManager(r.m)
    /\ lastOp' = [Idle("connect") EXCEPT !.ret = IF r.ret THEN 1 ELSE 0,
                                         !.attempts = r.attempts,
                                         !.err = r.err]

\* manager.connect()
Connect ==
    /\ \E bk \in BackendOutcomes(0) : Connected(connect(Self, bk))
    /\ UNCHANGED <<nextBatch, failed, valVars, parseVars, apiVars>>

\* manager.close()
Close ==
    /\ SetManager(close(Self))
    /\ lastOp' = Idle("close")
    /\ UNCHANGED <<nextBatch, failed, valVars, parseVars, apiVars>>

Inserted(r, batch) ==
    /\ SetManager(r.m)
    /\ nextBatch' = IF batch = <<>> THEN nextBatch ELSE nextBatch + 1
    /\ failed' = IF r.err \in {"psycopg2.Error", "Exception"}
                 THEN failed \cup {nextBatch} ELSE failed
    /\ lastOp' = [Idle("insert_records") EXCEPT
                    !.batch = batch,
                    !.batchNo = IF batch = <<>> THEN 0 ELSE nextBatch,
                    !.ret = r.ret,
                    !.exc = r.exc,
                    !.attempts = r.attempts,
                    !.err = r.err,
                    !.lost = r.lost]

\* manager.insert_records(records) for the records of an imported file
InsertRecords ==
    /\ \E batch \in ImportBatches :
          /\ Room(Len(batch))
          /\ \E bk \in BackendOutcomes(Len(batch)) :
                Inserted(insert_records(Self, batch, nextBatch, bk), batch)
    /\ UNCHANGED <<valVars, parseVars, apiVars>>

Fetched(r) ==
    /\ SetManager(r.m)
    /\ lastOp' = [Idle("fetch_records") EXCEPT
                    !.batch = r.ret, !.ret = Len(r.ret), !.attempts = r.attempts,
                    !.err = r.err, !.lost = r.lost]

\* manager.fetch_records(query)
FetchRecords ==
    /\ \E bk \in BackendOutcomes(0) : Fetched(fetch_records(Self, bk))
    /\ UNCHANGED <<nextBatch, failed, valVars, parseVars, apiVars>>

\* whether the call reached insert_records: it reported a count, or it raised
InsertCalled(r) == r.count # -1 \/ r.raised # "none"

AddedRecord(r, raw, today) ==
    /\ SetManager(r.m)
    /\ nextBatch' = IF InsertCalled(r) THEN nextBatch + 1 ELSE nextBatch
    /\ failed' = IF r.count = 0 /\ r.m.conn = "open" THEN failed \cup {nextBatch} ELSE failed
    /\ lastOp' = [Op("add_record", raw, <<>>, IF InsertCalled(r) THEN nextBatch ELSE 0, today,
                     r.count, r.exc, r.rec, r.attempts)
                  EXCEPT !.raised = r.raised]

\* service.add_record(raw_data)
AddRecord ==
    /\ Room(1)
    /\ \E raw \in ServiceInputs, today \in ServiceDates, bk \in BackendOutcomes(1) :
          AddedRecord(add_record(Self, raw, today, nextBatch, bk), raw, today)
    /\ UNCHANGED <<valVars, parseVars, apiVars>>

\* the server ends the connection: closed != 0 from then on
ServerDrop ==
    /\ conn = "open"
    /\ SetManager(Manager("closed", store, <<>>))
    /\ lastOp' = Idle("server_drop")
    /\ UNCHANGED <<nextBatch, failed, valVars, parseVars, apiVars>>

\* request bodies given to POST /workouts/
PostInputs ==
    ServiceInputs
    \cup {RawMapping(StrV(Squat), InfV, IntV(5), IntV(1), Absent, Absent),
          RawMapping(StrV(Squat), IntV(100), StrV(<<"a", "b", "c">>), IntV(1), Absent, Absent),
          RawMapping(IntV(1), IntV(100), IntV(5), IntV(1), Absent, Absent)}

RecordIds == 1..MaxStore

FetchedAs(op, r, status) ==
    /\ SetManager(r.m)
    /\ lastOp' = [Idle(op) EXCEPT
                    !.batch = r.ret, !.ret = Len(r.ret), !.attempts = r.attempts,
                    !.err = r.err, !.lost = r.lost, !.status = status]

\* service.get_all_records()
GetAllRecords ==
    /\ \E bk \in BackendOutcomes(0), result \in OrderBy(Visible(Self)) :
          FetchedAs("get_all_records", get_all_records(Self, result, bk), 0)
    /\ UNCHANGED <<nextBatch, failed, valVars, parseVars, apiVars>>

FoundOr404(r) == FetchedAs("get_workout_record", r, IF r.ret # <<>> THEN 200 ELSE 404)

\* GET /workouts/<record_id> on the manager
GetWorkoutRecord ==
    /\ \E bk \in BackendOutcomes(0), record_id \in RecordIds :
          FoundOr404(get_workout_record(Self, record_id, bk))
    /\ UNCHANGED <<nextBatch, failed, valVars, parseVars, apiVars>>

Posted(r, raw, today) ==
    /\ SetManager(r.m)
    /\ nextBatch' = IF InsertCalled(r) THEN nextBatch + 1 ELSE nextBatch
    /\ failed' = IF r.count = 0 /\ r.m.conn = "open" THEN failed \cup {nextBatch} ELSE failed
    /\ lastOp' = [Op("post_workout", raw, <<>>, IF InsertCalled(r) THEN nextBatch ELSE 0,
                     today, r.count, "none", r.rec, r.attempts)
                  EXCEPT !.status = r.status, !.raised = r.raised]

\* POST /workouts/ on the manager
PostWorkout ==
    /\ Room(1)
    /\ \E raw \in PostInputs, today \in ServiceDates, bk \in BackendOutcomes(1) :
          Posted(add_workout_record(Self, raw, today, nextBatch, bk), raw, today)
    /\ UNCHANGED <<valVars, parseVars, apiVars>>

Next ==
    \/ Connect
    \/ Close
    \/ InsertRecords
    \/ FetchRecords
    \/ AddRecord
    \/ ServerDrop
    \/ GetAllRecords
    \/ GetWorkoutRecord
    \/ PostWorkout

Spec == Init /\ [][Next]_vars

-----------------------------------------------------------------------------
(* The requests of the API: each runs in an application context of its own *)

\* a request arrives: a new application context, with an empty g
BeginRequest ==
    /\ phase = "idle"
    /\ phase' = "active"
    /\ created' = 0
    /\ got' = {}
    /\ lastOp' = Idle("begin_request")
    /\ UNCHANGED <<g, conn, store, pending, nextBatch, failed, valVars, parseVars>>

GotManager(gm) ==
    /\ g' = gm.g
    /\ created' = gm.created
    /\ got' = got \cup {gm.g}

\* current_app.get_db_manager() during the request
GetDbManager ==
    /\ phase = "active"
    /\ GotManager(get_db_manager(g, created))
    /\ SetManager(ManagerOfRequest(g, Self))
    /\ lastOp' = Idle("get_db_manager")
    /\ UNCHANGED <<phase, nextBatch, failed, valVars, parseVars>>

\* POST /workouts/: get_db_manager is called once the body has passed the checks
RequestPosted(r, raw, today) ==
    /\ Posted(r, raw, today)
    /\ IF InsertCalled(r) THEN GotManager(get_db_manager(g, created))
       ELSE UNCHANGED <<g, created, got>>

RequestPost ==
    /\ phase = "active"
    /\ Room(1)
    /\ \E raw \in PostInputs, today \in ServiceDates, bk \in BackendOutcomes(1) :
          RequestPosted(add_workout_record(ManagerOfRequest(g, Self), raw, today,
                                           nextBatch, bk), raw, today)
    /\ phase' = "done"
    /\ UNCHANGED <<valVars, parseVars>>

\* GET /workouts/
RequestGetAll ==
    /\ phase = "active"
    /\ GotManager(get_db_manager(g, created))
    /\ \E bk \in BackendOutcomes(0), result \in OrderBy(Visible(ManagerOfRequest(g, Self))) :
          FetchedAs("get_workout_records",
                    get_workout_records(ManagerOfRequest(g, Self), result, bk), 200)
    /\ phase' = "done"
    /\ UNCHANGED <<nextBatch, failed, valVars, parseVars>>

\* GET /workouts/<record_id>
RequestGetOne ==
    /\ phase = "active"
    /\ GotManager(get_db_manager(g, created))
    /\ \E bk \in BackendOutcomes(0), record_id \in RecordIds :
          FoundOr404(get_workout_record(ManagerOfRequest(g, Self), record_id, bk))
    /\ phase' = "done"
    /\ UNCHANGED <<nextBatch, failed, valVars, parseVars>>

\* the handler ends with an exception
HandlerRaises ==
    /\ phase = "active"
    /\ phase' = "done"
    /\ lastOp' = [Idle("handler_raises") EXCEPT !.exc = "Exception", !.status = 500]
    /\ UNCHANGED <<g, created, got, conn, store, pending, nextBatch, failed,
                   valVars, parseVars>>

\* the application context ends: teardown_appcontext runs close_db_manager
Teardown ==
    /\ phase = "done"
    /\ phase' = "idle"
    /\ SetManager(close_db_manager(g, Self))
    /\ g' = 0
    /\ lastOp' = [Idle("teardown") EXCEPT !.ret = created]
    /\ UNCHANGED <<created, got, nextBatch, failed, valVars, parseVars>>

NextApi ==
    \/ BeginRequest
    \/ GetDbManager
    \/ RequestPost
    \/ RequestGetAll
    \/ RequestGetOne
    \/ HandlerRaises
    \/ Teardown

SpecApi == Init /\ [][NextApi]_vars

-----------------------------------------------------------------------------
(* Properties of the manager and the service *)

Committed(batchNo) == {i \in 1..Len(store) : store[i].batch = batchNo}

\* C2: insert_records is all-or-nothing.  A call on a non-empty batch of N records
\* returns N with its N rows committed, or 0 with none of them committed; and no
\* row of a batch whose call returned 0 after an error raised during the batch is
\* ever among the committed rows, whatever calls follow on the same manager
C2_InsertAllOrNothing ==
    /\ \A i \in 1..Len(store) : store[i].batch \notin failed
    /\ (lastOp.op = "insert_records" /\ lastOp.batch # <<>>) =>
          \/ /\ lastOp.ret = Len(lastOp.batch)
             /\ Cardinality(Committed(lastOp.batchNo)) = Len(lastOp.batch)
          \/ /\ lastOp.ret = 0
             /\ Committed(lastOp.batchNo) = {}

\* C3 (as claimed): for a raw input that passes validation, add_record returns the record exactly
\* when the insert_records call on the batch of that one record reported a count
\* greater than 0, and fails with DatabaseServiceError exactly when it reported 0;
\* a record returned is a committed row
C3_RecordReturnedIffInserted ==
    (lastOp.op = "add_record" /\ ViolatedRules(lastOp.raw) = {}) =>
       /\ lastOp.exc = "none" <=> lastOp.ret > 0
       /\ lastOp.exc = "DatabaseServiceError" <=> lastOp.ret = 0
       /\ lastOp.exc = "none" =>
             \E i \in 1..Len(store) : store[i] = Row(lastOp.rec, lastOp.batchNo)

StoredRowValid(row) ==
    /\ \E i \in 1..Len(ALLOWED_EXERCISE_TYPES) : row.t[2] = ALLOWED_EXERCISE_TYPES[i]
    /\ Sign(row.t[3]) >= 0
    /\ Sign(row.t[4]) >= 0
    /\ Sign(row.t[5]) >= 1

\* C5: after any sequence of add_record calls and of insert_records calls on
\* imported records, every row of the table, committed or written by the open
\* transaction, has an exercise_type of the three-member vocabulary, weight >= 0,
\* reps >= 0 and sets >= 1
C5_StoredRecordsValid ==
    /\ \A i \in 1..Len(store) : StoredRowValid(store[i])
    /\ \A i \in 1..Len(pending) : StoredRowValid(pending[i])

\* the table holds a row add_record wrote from an exercise_type with surrounding
\* blanks and a row of an imported file
C5_Witness ==
    /\ Len(store) = 2
    /\ \E i \in 1..2 : store[i].t[2] = Squat /\ store[i].t[3] = PyInt(0)
    /\ \E i \in 1..2 : store[i].t[2] = BenchPress /\ store[i].t[5] = PyInt(1)
    /\ lastOp.op = "insert_records"
    /\ lastOp.ret = 1

\* C6: the record add_record builds and hands to insert_records has the int() of the raw weight, reps and sets,
\* the exercise_type trimmed, today's date, and the estimated_1rm that
\* estimate_1rm_epley gives for that weight and reps; an estimated_1rm or a
\* record_date of the raw input has no part in it, nor in the row committed
C6_OneRmDerivedNotSupplied ==
    (lastOp.op = "add_record" /\ (lastOp.ret # -1 \/ lastOp.raised # "none")) =>
       /\ lastOp.rec.weight = ToInt(Get(lastOp.raw, "weight")).val
       /\ lastOp.rec.reps = ToInt(Get(lastOp.raw, "reps")).val
       /\ lastOp.rec.sets = ToInt(Get(lastOp.raw, "sets")).val
       /\ lastOp.rec.exercise_type = Strip(Get(lastOp.raw, "exercise_type").s)
       /\ lastOp.rec.record_date = lastOp.today
       /\ lastOp.rec.estimated_1rm =
             estimate_1rm_epley(Some(lastOp.rec.weight), Some(lastOp.rec.reps)).val
       /\ \A i \in Committed(lastOp.batchNo) :
             /\ store[i].t[1] = lastOp.today
             /\ store[i].t[6] =
                   estimate_1rm_epley(Some(store[i].t[3]), Some(store[i].t[4])).val

\* add_record on a raw input that names estimated_1rm 999 and a record_date of its
\* own committed a record of 100 x 5, estimated at 117
C6_Witness ==
    /\ lastOp.op = "add_record"
    /\ lastOp.exc = "none"
    /\ HasKey(lastOp.raw, "estimated_1rm")
    /\ HasKey(lastOp.raw, "record_date")
    /\ Get(lastOp.raw, "estimated_1rm") = IntV(999)
    /\ lastOp.rec.estimated_1rm = Some(117)
    /\ Committed(lastOp.batchNo) # {}

\* C10: insert_records on an empty list returns 0, makes no connection attempt and
\* leaves the connection, the committed rows and the open transaction as they
\* were, whatever the state of the connection
C10_EmptyInsertNoEffect ==
    [][(lastOp'.op = "insert_records" /\ lastOp'.batch = <<>>) =>
          /\ lastOp'.ret = 0
          /\ lastOp'.attempts = 0
          /\ UNCHANGED <<conn, store, pending>>]_vars

\* insert_records([]) was called on a manager that is not connected, with rows in
\* the table
C10_Witness ==
    /\ lastOp.op = "insert_records"
    /\ lastOp.batch = <<>>
    /\ lastOp.ret = 0
    /\ conn \in {"none", "closed"}
    /\ store # <<>>

-----------------------------------------------------------------------------
(* Properties of connect and fetch_records *)

\* C11: connect never raises; on a manager that holds an open connection it returns
\* True without a connection attempt and changes nothing; otherwise it makes exactly
\* one attempt and returns True holding an open connection, or False holding none
C11_ConnectIdempotent ==
    [][lastOp'.op = "connect" =>
          /\ lastOp'.exc = "none"
          /\ UNCHANGED store
          /\ IF conn = "open"
             THEN /\ lastOp'.ret = 1
                  /\ lastOp'.attempts = 0
                  /\ UNCHANGED <<conn, pending>>
             ELSE /\ lastOp'.attempts = 1
                  /\ \/ lastOp'.ret = 1 /\ conn' = "open"
                     \/ lastOp'.ret = 0 /\ conn' = "none"]_vars

\* connect was called on a manager whose connection was open, with rows committed
\* through it
C11_Witness ==
    /\ lastOp.op = "connect"
    /\ lastOp.ret = 1
    /\ lastOp.attempts = 0
    /\ conn = "open"
    /\ store # <<>>

\* C12 (as claimed): fetch_records never raises.  When the connection cannot be made it returns
\* an empty list; when the query fails it returns an empty list; when the query
\* succeeds it returns the rows of the result, in the order of the result.  A
\* connection that was made, by this call or before it, is open when it returns,
\* and the table is as it was
C12_FetchNeverRaisesKeepsOpen ==
    [][lastOp'.op = "fetch_records" =>
          /\ lastOp'.exc = "none"
          /\ UNCHANGED <<store, pending>>
          /\ conn = "open" => conn' = "open" /\ lastOp'.attempts = 0
          /\ IF lastOp'.err = "connect"
             THEN conn' = "none" /\ lastOp'.batch = <<>>
             ELSE /\ conn' = "open"
                  /\ IF lastOp'.err = "none"
                     THEN /\ Len(lastOp'.batch) = Len(store) + Len(pending)
                          /\ \A i \in 1..Len(lastOp'.batch) :
                                lastOp'.batch[i] = RowDict((store \o pending)[i])
                     ELSE lastOp'.batch = <<>>]_vars

\* C12 (amended): fetch_records never raises.  When the connection cannot be made
\* it returns an empty list; when the query fails it returns an empty list; when
\* the query succeeds it returns the rows of the result, in the order of the
\* result.  It never closes or drops a connection that was made, by this call or
\* before it: when it returns the manager still holds that connection, which is
\* open unless the psycopg2.Error of the query was the loss of the connection, and
\* then it is closed with its open transaction gone.  The committed rows are as
\* they were
C12_FetchNeverRaisesNeverCloses ==
    [][lastOp'.op = "fetch_records" =>
          /\ lastOp'.exc = "none"
          /\ UNCHANGED store
          /\ conn = "open" => lastOp'.attempts = 0
          /\ IF lastOp'.err = "connect"
             THEN conn' = "none" /\ lastOp'.batch = <<>> /\ ~lastOp'.lost
             ELSE /\ conn' # "none"
                  /\ conn' = "open" <=> ~lastOp'.lost
                  /\ lastOp'.lost => lastOp'.err = "psycopg2.Error" /\ pending' = <<>>
                  /\ ~lastOp'.lost => UNCHANGED pending
                  /\ IF lastOp'.err = "none"
                     THEN /\ Len(lastOp'.batch) = Len(store) + Len(pending)
                          /\ \A i \in 1..Len(lastOp'.batch) :
                                lastOp'.batch[i] = RowDict((store \o pending)[i])
                     ELSE lastOp'.batch = <<>>]_vars

\* a query failed by the loss of the connection the call itself had opened, with
\* rows in the table: nothing is returned, and the manager holds a closed connection
C12_Witness ==
    /\ lastOp.op = "fetch_records"
    /\ lastOp.err = "psycopg2.Error"
    /\ lastOp.lost
    /\ lastOp.attempts = 1
    /\ lastOp.batch = <<>>
    /\ store # <<>>
    /\ conn = "closed"

-----------------------------------------------------------------------------
(* Properties of the API *)

\* C13: during one request at most one manager is constructed and every
\* get_db_manager call returns that one; once the context of a request has ended,
\* whether its handler returned or raised, g holds no manager and the connection
\* of the request's manager is closed
C13_RequestScopedManager ==
    /\ created <= 1
    /\ Cardinality(got) <= 1
    /\ g # 0 => got = {g}
    /\ phase = "idle" => g = 0 /\ conn = "none" /\ pending = <<>>

\* a request that called get_db_manager more than once and committed a record has
\* ended
C13_Witness ==
    /\ phase = "idle"
    /\ lastOp.op = "teardown"
    /\ lastOp.ret = 1
    /\ got = {1}
    /\ store # <<>>

\* C14: the table is append-only.  Whatever the call (add_record, the POST route,
\* get_all_records, insert_records, fetch_records, the fetch by id, connect, close),
\* every committed row is still there after it, unchanged and in its place: the
\* rows committed before a step are a prefix of the rows committed after it
C14_StoreAppendOnly ==
    [][/\ Len(store') >= Len(store)
       /\ SubSeq(store', 1, Len(store)) = store]_vars

\* two calls committed a row each, and the connection was closed after them
C14_Witness ==
    /\ Len(store) = 2
    /\ store[1].batch # store[2].batch
    /\ lastOp.op = "close"
    /\ conn = "none"

\* C15 (as claimed): POST /workouts/ answers 201 exactly when the record was
\* committed; 400, with no insert attempted and the table and the connection
\* unchanged, for every body that violates a rule of validation (a missing field,
\* an exercise_type that is no string or not of the vocabulary, a weight, reps or
\* sets that is not convertible to an integer or is out of range); and 500 when
\* insert_records reported 0 rows
C15_PostStatusCodes ==
    [][lastOp'.op = "post_workout" =>
          /\ lastOp'.status = 201 <=>
                \E i \in 1..Len(store') : store'[i] = Row(lastOp'.rec, lastOp'.batchNo)
          /\ ViolatedRules(lastOp'.raw) # {} =>
                /\ lastOp'.status = 400
                /\ lastOp'.ret = -1
                /\ lastOp'.attempts = 0
                /\ UNCHANGED <<conn, store, pending>>
          /\ (ViolatedRules(lastOp'.raw) = {} /\ lastOp'.ret = 0) =>
                lastOp'.status = 500]_vars

-----------------------------------------------------------------------------
(* Properties of the importer's exercise headers and of its failures *)

\* line i of h is scanned under an active date and is neither blank, a date header,
\* a set line nor a recognised exercise
Unrecognised(h, B, i) ==
    /\ B.kind[i] = "other"
    /\ Strip(h[i]) # <<>>
    /\ B.dateActive[i - 1]

\* an unrecognised line of h is followed by no recognised exercise header
AfterUnrecognised(h, B) ==
    \E j \in 1..Len(h) :
       /\ Unrecognised(h, B, j)
       /\ \A k \in (j + 1)..Len(h) : ~(B.kind[k] = "alias" /\ B.dateActive[k - 1])

\* C16 (as claimed): an unrecognised line under an active date leaves the current
\* exercise unchanged, and the set lines scanned after it yield no record until a
\* recognised exercise header is scanned
C16_UnrecognisedLineSuspendsSets ==
    [][(Len(lines') = Len(lines) + 1) =>
          /\ Unrecognised(lines', Blocks(lines'), Len(lines')) =>
                UNCHANGED <<current_date, current_exercise>>
          /\ (IsSetLine(NewLine) /\ AfterUnrecognised(lines, Blocks(lines))) =>
                UNCHANGED records_list]_vars

\* C17: parse never raises and returns nothing partial when reading fails: if the
\* file cannot be opened, or reading fails at any line, it returns the empty list,
\* whatever records the earlier lines gave; at the end of a file read without
\* error it returns the records built
C17_ReadFailureReturnsEmpty ==
    /\ scan \in {"scanning", "returned", "failed"}
    /\ scan = "failed" => returned = <<>>
    /\ scan = "returned" => returned = records_list
    /\ scan = "scanning" => returned = <<>>

\* reading failed after two records had been built
C17_Witness ==
    /\ scan = "failed"
    /\ Len(records_list) = 2
    /\ returned = <<>>

AliasKeys == {EXERCISE_ALIASES[i][1] : i \in 1..Len(EXERCISE_ALIASES)}

\* C18: a line that is neither a date header nor a set line changes the current
\* exercise only if a date is active and the trimmed line is a key of the alias
\* table, and then to the name the table gives.  The canonical names of bench press
\* and deadlift are no keys: such a line changes nothing, so the spellings the
\* importer accepts are a proper subset of the vocabulary with the aliases
C18_OnlyAliasKeysRecognised ==
    [][(Len(lines') = Len(lines) + 1 /\ ~IsDateLine(NewLine) /\ ~IsSetLine(NewLine)) =>
          /\ current_exercise' # current_exercise =>
                /\ current_date.some
                /\ Strip(NewLine) \in AliasKeys
                /\ current_exercise' = AliasOf(NewLine)
          /\ (current_date.some /\ Strip(NewLine) \in AliasKeys) =>
                current_exercise' = AliasOf(NewLine) /\ set_count' = 0
          /\ Strip(NewLine) \in {BenchPress, Deadlift} =>
                UNCHANGED <<current_date, current_exercise, set_count, records_list>>
          /\ {BenchPress, Deadlift} \cap AliasKeys = {}
          /\ {BenchPress, Deadlift} \subseteq Allowed]_vars

\* under a date and the exercise of the alias of deadlift, the canonical name of
\* bench press was scanned: the current exercise is still deadlift
C18_Witness ==
    /\ Len(lines) = 3
    /\ IsValidDateLine(lines[1])
    /\ IsAliasLine(lines[2])
    /\ Strip(lines[3]) = BenchPress
    /\ current_exercise = Deadlift
    /\ current_date.some

-----------------------------------------------------------------------------
(* The estimate of a record of weight 0 *)

\* C19 (as claimed): a body with weight 0 that violates no rule passes validation in add_record
\* and in POST /workouts/: the insert is attempted on a record whose estimated_1rm
\* is None, and when the insert succeeds the call succeeds and the row committed
\* has a null estimated_1rm.  For every accepted body with weight > 0 the
\* estimated_1rm of the record is an integer
C19_ZeroWeightHasNoEstimate ==
    (lastOp.op \in {"add_record", "post_workout"} /\ ViolatedRules(lastOp.raw) = {}) =>
       /\ lastOp.ret # -1 \/ lastOp.raised # "none"
       /\ lastOp.rec.weight = ToInt(Get(lastOp.raw, "weight")).val
       /\ lastOp.rec.weight = PyInt(0) =>
             /\ lastOp.rec.estimated_1rm = None
             /\ lastOp.ret > 0 =>
                   /\ lastOp.exc = "none"
                   /\ lastOp.op = "post_workout" => lastOp.status = 201
                   /\ \E i \in 1..Len(store) :
                         /\ store[i].batch = lastOp.batchNo
                         /\ store[i].t[3] = PyInt(0)
                         /\ store[i].t[6] = None
       /\ Sign(lastOp.rec.weight) > 0 =>
             /\ lastOp.rec.estimated_1rm.some
             /\ lastOp.rec.estimated_1rm.v >= lastOp.rec.weight.n

====
